---------------------------- MODULE Spec2Model ----------------------------
(***************************************************************************)
(* Model of the firmware in src/v1/Arduino/main/main.ino: the audio task   *)
(* (Producer), the BLE command callback, setup(), the control loop's       *)
(* telemetry part and the BLE notify task.                                 *)
(*                                                                         *)
(* The specifications share the variables:                                 *)
(*   Spec          setup, the MODE command handler and the audio task,     *)
(*                 interleaved at the granularity of one shared-variable   *)
(*                 access per step (the handler runs on core 0, the audio  *)
(*                 task on core 1);                                        *)
(*   ScenarioSpec  the same actions, started in Song mode with the stream  *)
(*                 open and fed the frames MODE:1, MODE:0;                 *)
(*   BleSpec       loop()'s telemetry and link maintenance, bleNotifyTask, *)
(*                 the connect/disconnect callbacks and the clock;         *)
(*   ParamSpec     the command frames other than MODE;                     *)
(*   ForceSpec     calibration frames and loop()'s Accordion cycle;        *)
(*   PowerSpec     POWER frames, loop() and the audio task;                *)
(*   VoiceSpec     a degenerate calibration, loop() and the synthesis;     *)
(*   MixSpec       the synthesis of one block from resting voices;         *)
(*   BandSpec      loop()'s Song cycle with calibration, power and clock;  *)
(*   ModeSpec      the MODE handler interleaved with loop();               *)
(*   FrameSpec     the well-formed command frames, one handler run each;   *)
(*   IndexSpec     SENSOR_VOLUME frames of any channel index and loop();   *)
(*   WriteSpec     the web app's BleService.write chain                    *)
(*                 (services/BleService.ts);                               *)
(*   NotesSpec     the web app's updateRecordingNotes over the blob store  *)
(*                 (services/blobService.ts).                              *)
(*                                                                         *)
(* Sizes are scaled: a block of bufSize = 2048 bytes is BlockSize items,   *)
(* the 2000 ms stall window is HeartbeatTimeout clock ticks.               *)
(***************************************************************************)
EXTENDS Integers, Sequences, FiniteSets, TLC

\* ------------------------------------------------------------- bounds
\* Items per block (bufSize, main.ino:237, scaled down).
BlockSize == 2
\* Longest stream data section (items after the header) that Init draws.
MaxLen == 3
\* Last clock value: Tick stops there.
MaxTime == 5
\* Heartbeats counted in one stall (the count saturates there).
MaxHeartbeats == 2

\* Most comma-separated fields in the payload of a command frame.
MaxFields == 5
\* Most writes handed to BleService.write.
MaxWrites == 3
\* Most urls the store hands out, to saved and re-uploaded recordings.
MaxBlobs == 3
\* Magnitude of the samples of the stream's data section.
SongAmplitude == 1000

\* ---------------------------------------------------- program constants
WAV_HEADER_SIZE == 44
\* BLE_HEARTBEAT_TIMEOUT_MS, in clock ticks of 2000 ms.
HeartbeatTimeout == 1
\* Width of the scaled unsigned clock arithmetic (unsigned long, 2^32 on target).
ClockModulus == 16

\* Content of a block position: the file offset of the byte it holds, or
Pad == -1      \* a zero written by memset
Uninit == -2   \* heap memory never written

\* Telemetry frames are told apart by a sequence number modulo FrameIds.
FrameIds == 2

\* const int numSensors.
NumSensors == 4
Channels == 0..(NumSensors - 1)
\* Largest raw sample of the 12-bit ADC (analogReadResolution(12)).
RawMax == 4095
\* Largest int, scaled (2^31 - 1 on target); the smallest is -IntMax - 1.
IntMax == 32767
\* Upper end of a volume or slider payload; volumes are stored as payload/100
\* and kept here in hundredths.
PercentMax == 100
\* Sensitivity exponents in thousandths: 2.0, 0.3, and 1.7 per unit of
\* t = s/100, that is 17 thousandths per slider step.
ExpHigh == 2000
ExpLow == 300
ExpSlope == 17
\* Initialisers of sensorBaselines, sensorThresholds and frontExp (0.5).
DefaultBaseline == 300
DefaultThreshold == 150
DefaultFrontExp == 500

\* ---- synthesis; volumes and band levels are kept in thousandths
\* 1.0f as a volume or level.
VolUnit == 1000
\* A float that is not a number (0/0 and what is computed from it).
NaN == -1
TREBLE_BASE == 50
BASS_BASE == 150
HOLD_TIME_MS == 1500
DECAY_PER_LOOP == 16
\* Milliseconds per clock tick.
TickMs == 2000
LP_ALPHA == 146
\* attackAlpha 0.003 and releaseAlpha 0.0008, in AlphaUnit-ths.
attackAlpha == 30
releaseAlpha == 8
AlphaUnit == 10000
WAVETABLE_SIZE == 256
SAMPLE_RATE == 22050
\* powf(2, 4/1200) = 1.0023, as DetuneNum / DetuneDen.
DetuneNum == 10023
DetuneDen == 10000
\* Largest magnitude of a wavetable entry: (int16_t)(32767 * 0.25).
WavePeak == 8191
\* TREMOLO_DEPTH 0.08, in thousandths.
TREMOLO_DEPTH == 80
\* Range of int16_t.
Int16Max == 32767
Int16Min == -32768
\* Base and span of baseVolume = 0.3 + nf * 0.7, in thousandths.
BaseVolumeMin == 300
BaseVolumeSpan == 700

Bufs == {"A", "B"}
ModeValues == {0, 1, 2}
ModeFrames == [cmd : {"MODE"}, val : ModeValues]

VARIABLES
    \* ---- shared between the contexts
    phase,            \* "boot" before setup() has run, "run" after
    prefsMode,        \* the "mode" key of the NVS store (Preferences)
    audioMode,        \* volatile int audioMode
    needOpenSong,     \* volatile bool needOpenSong
    needCloseSong,    \* volatile bool needCloseSong
    \* ---- the command callback (core 0)
    cbPc,             \* position of MyCharacteristicCallbacks::onWrite
    script,           \* frames still to be written by the remote (ScenarioSpec)
    \* ---- the audio task (core 1)
    songFile,         \* File songFile: [open, pos]
    songFileOpen,     \* bool songFileOpen
    dataLen,          \* length of /SONG.WAV's data section
    songReady,        \* int16_t *songReady: "NULL", "A" or "B"
    songReadyBytes,   \* size_t songReadyBytes
    blk,              \* contents of songBufA / songBufB
    aPc,              \* position of audioTask's loop ("deleted" once the task
                      \* has deleted itself)
    currentMode,      \* audioTask's local copy of audioMode
    songBuf,          \* local: the block being played
    bytesRead,        \* local: bytes valid in songBuf
    \* ---- history of the audio task (not program state)
    filling,          \* block whose read has started and not yet completed
    played,           \* the last block handed to the filter loop
    playedFrom,       \* "none", "sync" or "prefetch"
    staleReady,       \* a block is marked ready that was prefetched before
                      \* the last processed open/close request
    playedStale,      \* such a block has been played
    droppedReady,     \* a processed request found a block marked ready
    badClose,         \* close() was executed on a handle that was not open
    leaked,           \* an open handle was overwritten without close()
    \* ---- the band filter and the contexts' writes
    lpState,          \* float lpStateL/lpStateR: 0 as reset, 1 once the
                      \* filter loop has run over a block
    writers,          \* history: per shared field, the contexts that have
                      \* written it since the tasks were started
    firstAfterOpen,    \* history: the stream has been opened and no block
                       \* has been taken from it since
    modeAtWrite,       \* history: the mode in effect when the MODE frame
                       \* being handled arrived ({} while the callback is
                       \* idle)
    modeBeforeRestart, \* history: the mode active when the device was last
                      \* restarted ({} before the first restart)
    \* ---- telemetry (BleSpec)
    deviceConnected, oldDeviceConnected, bleNeedsSend, lastBleUpdateMs,
    blePayload, clock, lPc, nPc, nowLocal,
    \* ---- history of the telemetry link (not program state)
    linkLost,         \* the link has dropped, and no connection has been
                      \* made with the telemetry at rest since
    frameState,       \* the frame in blePayload: "none", "written", "marked"
                      \* (pending) or "sent"
    frameClobbered,   \* a pending frame was overwritten or cleared unsent
    frameResent,      \* a frame was sent again, or sent without being pending
    hbSinceMark,      \* heartbeats sent since the last connect or mark
    lastEventAt,      \* clock of the last connect, mark, heartbeat or
                      \* timer write of the loop
    prevHbStamp,      \* timestamp of the previous heartbeat, -1 if the loop
                      \* has set the timer since (or there was none)
    hbTooSoon,        \* two heartbeats of one stall at most a window apart
    missedHb,         \* a poll found the stall window exceeded and sent nothing
    lossUnhandled,    \* the link has dropped and the loop has not run its
                      \* link-loss branch since
    \* ---- runtime parameters (ParamSpec, ForceSpec)
    sensorMaxVol,     \* volatile float sensorMaxVol[4], in hundredths
    sensorBaselines,  \* volatile int sensorBaselines[4]
    sensorThresholds, \* volatile int sensorThresholds[4]
    masterVol,        \* volatile float masterVol, in hundredths
    systemOn,         \* volatile bool systemOn
    frontExp,         \* volatile float frontExp, in thousandths
    backExp,          \* volatile float backExp, in thousandths
    \* ---- loop(): the last control cycle's locals
    sensorValues,     \* int sensorValues[4]
    force,            \* int force, per channel
    normalizedForce,  \* float normalizedForce / nf per channel, before the
                      \* sensitivity curve: [num, den]; den = 0 is 0/0 (NaN)
    \* ---- history of the command callback
    slider,           \* payload of the last SENSITIVITY frame ({} if none)
    \* ---- synthesis state
    voices,           \* Voice voices[4]: phaseIncrement, phaseInc2 (hundredths
                      \* of a table step), targetVol, currentVol (thousandths)
    trebleLvlR,       \* volatile float band levels, in thousandths
    trebleLvlL,
    bassLvlR,
    bassLvlL,
    holdTrebleR,      \* BandHold: [peak, lastActive]
    holdTrebleL,
    holdBassR,
    holdBassL,
    buffer,           \* audioTask's output block: a frame [L, R] per item
    mixSum,           \* history: per frame, the exact sums of the voice
                      \* contributions of the last synthesized block
    \* ---- loop(): the audio logic's position and locals
    loopStage,        \* "sample" (line 733) or "logic" (line 744 / 809)
    loopOn,           \* the value of systemOn tested at line 741
    loopMode,         \* int currentMode of line 742
    \* ---- history of loop()
    offCycle,         \* the last cycle took the power-off branch and the
                      \* power flag has been off since
    lastPress,        \* per channel, the band level its last active cycle
                      \* set since the last reset ({} if none)
    \* ---- web app, BleService (services/BleService.ts)
    gattConnected,    \* device.gatt.connected with commandCharacteristic set
    writeQueue,       \* the links of the promise chain writeQueue, oldest
                      \* first: [data, st]
    \* ---- web app, blob storage and updateRecordingNotes (blobService.ts)
    blobs,            \* the store: a set of [url, pathname, data]
    nextUrl,          \* the store's next fresh url
    notesPc,          \* position in updateRecordingNotes
    blobUrl,          \* its arguments
    notes,
    csv,              \* const { data } of line 146 ("none" before it)
    meta,             \* const meta of line 156 ("none" before it)
    stored            \* history: the data the blob held when the call began

deviceStreamVars == <<phase, prefsMode, audioMode, needOpenSong, needCloseSong, cbPc,
                script, songFile, songFileOpen, dataLen, songReady,
                songReadyBytes, blk, aPc, currentMode, songBuf, bytesRead,
                filling, played, playedFrom, staleReady, playedStale,
                droppedReady, badClose, leaked, lpState, writers,
                modeBeforeRestart, modeAtWrite, firstAfterOpen>>

\* The web app's state; no step of the firmware changes it.
webVars == <<gattConnected, writeQueue, blobs, nextUrl, notesPc, blobUrl,
             notes, csv, meta, stored>>

streamVars == <<deviceStreamVars, webVars>>

\* The web app after load: no device chosen, an empty chain
\* (BleService.ts:23-29), an empty store, no call in progress.
WebInit ==
    /\ gattConnected = FALSE
    /\ writeQueue = << >>
    /\ blobs = {}
    /\ nextUrl = 1
    /\ notesPc = "idle"
    /\ blobUrl = 0
    /\ notes = ""
    /\ csv = "none"
    /\ meta = "none"
    /\ stored = "none"

bleVars == <<deviceConnected, oldDeviceConnected, bleNeedsSend, lastBleUpdateMs,
             blePayload, clock, lPc, nPc, nowLocal, linkLost, frameState,
             frameClobbered, frameResent, hbSinceMark, lastEventAt,
             prevHbStamp, hbTooSoon, missedHb, lossUnhandled>>

\* The history variables of the telemetry link.
bleHist == <<linkLost, frameState, frameClobbered, frameResent, hbSinceMark,
             lastEventAt, prevHbStamp, hbTooSoon, missedHb>>

\* What the command frames set.
runtimeParams == <<sensorMaxVol, sensorBaselines, sensorThresholds, masterVol,
                   systemOn, frontExp, backExp>>

cycleVars == <<sensorValues, force, normalizedForce>>

paramVars == <<runtimeParams, cycleVars, slider>>

\* The band levels and their hold state.
bandVars == <<trebleLvlR, trebleLvlL, bassLvlR, bassLvlL,
              holdTrebleR, holdTrebleL, holdBassR, holdBassL, lastPress>>

loopLocals == <<loopStage, loopOn, loopMode>>

synthVars == <<voices, bandVars, buffer, mixSum, loopLocals, offCycle>>

vars == <<streamVars, bleVars, paramVars, synthVars>>

\* The variables the audio task owns.
audioVars == <<songFile, songFileOpen, songReady, songReadyBytes, blk, aPc,
               currentMode, songBuf, bytesRead, filling, played, playedFrom,
               staleReady, playedStale, droppedReady, badClose, leaked>>

\* The low-pass state and the record of who wrote what.
filterVars == <<lpState, writers>>

\* Fields both sides of the firmware access, and the two contexts of the
\* spec: the audio task, and the control side (command callback, loop()).
SharedFields == {"lpState", "needOpenSong", "needCloseSong"}
Contexts == {"producer", "control"}
NoWriters == [f \in SharedFields |-> {}]
Wrote(f, c) == [writers EXCEPT ![f] = @ \cup {c}]

\* The stream handle and everything a storage driver call changes.
streamHandle == <<songFile, songFileOpen, blk>>

Min(a, b) == IF a < b THEN a ELSE b

\* ------------------------------------------------------ voices and bands
\* const float noteFreqs[NUM_VOICES], in hundredths of a hertz.
noteFreqs == <<26163, 32963, 39200, 52325>>

\* Lines 652 and 557: (freq / detuneRatio * WAVETABLE_SIZE) / SAMPLE_RATE, in
\* hundredths of a table step.
PhaseIncrement(i) ==
    (((noteFreqs[i + 1] * DetuneDen) \div DetuneNum) * WAVETABLE_SIZE)
        \div SAMPLE_RATE

\* Lines 654 and 558: (freq * detuneRatio * WAVETABLE_SIZE) / SAMPLE_RATE.
PhaseInc2(i) ==
    (((noteFreqs[i + 1] * DetuneNum) \div DetuneDen) * WAVETABLE_SIZE)
        \div SAMPLE_RATE

\* Lines 658-659: the left foot's sensors (1, 3) go to the left speaker, the
\* right foot's (0, 2) to the right one.
PanCentre(i) == 1
PanL(i) == IF i = 1 \/ i = 3 THEN 1 ELSE 0
PanR(i) == IF i = 0 \/ i = 2 THEN 1 ELSE 0

\* Voice voices[NUM_VOICES] as the C++ runtime zero-initialises it.
ZeroVoices ==
    [i \in Channels |-> [phaseIncrement |-> 0, phaseInc2 |-> 0,
                         targetVol |-> 0, currentVol |-> 0]]

\* Lines 649-660: setup()'s voice initialisation.
VoicesAtSetup ==
    [i \in Channels |-> [phaseIncrement |-> PhaseIncrement(i),
                         phaseInc2 |-> PhaseInc2(i),
                         targetVol |-> 0, currentVol |-> 0]]

\* Lines 564-566 (and 809-811): every targetVol = 0.
Silenced(vs) == [i \in Channels |-> [vs[i] EXCEPT !.targetVol = 0]]

\* Lines 555-560: MODE:0 recomputes the increments and silences the voices.
Retuned(vs) ==
    [i \in Channels |-> [vs[i] EXCEPT !.phaseIncrement = PhaseIncrement(i),
                                      !.phaseInc2 = PhaseInc2(i),
                                      !.targetVol = 0]]

\* BandHold initialisers of lines 122-125 and 193-194.
HoldAt(base) == [peak |-> base, lastActive |-> 0]

\* Lines 191-194: the band levels and hold state of resetFilterState().
ResetBands ==
    /\ trebleLvlR' = TREBLE_BASE
    /\ trebleLvlL' = TREBLE_BASE
    /\ bassLvlR' = BASS_BASE
    /\ bassLvlL' = BASS_BASE
    /\ holdTrebleR' = HoldAt(TREBLE_BASE)
    /\ holdTrebleL' = HoldAt(TREBLE_BASE)
    /\ holdBassR' = HoldAt(BASS_BASE)
    /\ holdBassL' = HoldAt(BASS_BASE)
    /\ lastPress' = [i \in Channels |-> {}]

\* Lines 188-196.
resetFilterState ==
    /\ lpState' = 0
    /\ ResetBands

\* Line 274: memset(buffer, 0, bufSize).
ZeroBlock == [i \in 1..BlockSize |-> [L |-> 0, R |-> 0]]

\* The globals of lines 112-125 as initialised, the output block (its first
\* content is never read: line 274 clears it), and loop() at its top.
SynthStart ==
    /\ trebleLvlR = TREBLE_BASE
    /\ trebleLvlL = TREBLE_BASE
    /\ bassLvlR = BASS_BASE
    /\ bassLvlL = BASS_BASE
    /\ holdTrebleR = HoldAt(TREBLE_BASE)
    /\ holdTrebleL = HoldAt(TREBLE_BASE)
    /\ holdBassR = HoldAt(BASS_BASE)
    /\ holdBassL = HoldAt(BASS_BASE)
    /\ buffer = ZeroBlock
    /\ mixSum = ZeroBlock
    /\ loopStage = "sample"
    /\ loopOn = TRUE
    /\ loopMode = 0
    /\ offCycle = FALSE
    /\ lastPress = [i \in Channels |-> {}]

\* Before setup() and after it.
SynthInit == voices = ZeroVoices /\ SynthStart
SynthAfterSetup == voices = VoicesAtSetup /\ SynthStart

\* ------------------------------------------------------- audio samples
\* (int32_t) or (int16_t) of the float n / d: the fraction is dropped.
Trunc(n, d) == IF n < 0 THEN -((-n) \div d) ELSE n \div d

\* What a conversion of NaN to an integer may give (undefined in C++).
UndefinedInt16 == {Int16Min, 0, Int16Max}

\* Lines 332-333: a sample limited to the 16-bit range.
Clamp16(v) == IF v > Int16Max THEN Int16Max ELSE IF v < Int16Min THEN Int16Min ELSE v

\* int16_t a += b (line 395): the sum modulo 2^16.
Add16(a, b) == ((a + b - Int16Min) % (Int16Max - Int16Min + 1)) + Int16Min

\* The 16-bit sample of the stream at block content x: 0 for padding, else a
\* sample of magnitude SongAmplitude.
SampleOf(x) ==
    IF x = Pad THEN 0 ELSE IF x % 2 = 0 THEN SongAmplitude ELSE -SongAmplitude

\* Lines 314-333 for one channel of one frame: the sample is split by the
\* low-pass filter, each band scaled by its level, the sum by the master
\* volume, and the result limited. The low-pass state is kept as reset or
\* not (lpState) only, and the split is the one of a first frame after a
\* reset: bass = LP_ALPHA * raw.
SongMix(raw, bassLvl, trebleLvl, mv, undef) ==
    LET bass == Trunc(LP_ALPHA * raw, VolUnit)
        treble == raw - bass
        out == Trunc(Trunc(bass * bassLvl + treble * trebleLvl, VolUnit) * mv,
                     PercentMax)
    IN  IF bassLvl = NaN \/ trebleLvl = NaN THEN undef ELSE Clamp16(out)

\* Lines 371-372: one step of the one-pole smoothing of a voice's volume. A
\* step the float computes as non-zero is at least one unit here.
SmoothAway(target, current) ==
    IF target = NaN \/ current = NaN THEN NaN
    ELSE current - (target - current)
Smooth(target, current) ==
    IF target = NaN \/ current = NaN THEN NaN
    ELSE IF target > current
           THEN current + ((attackAlpha * (target - current) + AlphaUnit - 1)
                              \div AlphaUnit)
           ELSE current - ((releaseAlpha * (current - target) + AlphaUnit - 1)
                              \div AlphaUnit)

RECURSIVE SmoothN(_, _, _)
SmoothN(target, current, n) ==
    IF n = 0 THEN current ELSE SmoothN(target, Smooth(target, current), n - 1)

\* Entries of wavetable[] an oscillator can read (interpolated values lie
\* between them), and values of tremoloMod = 1 + sin * TREMOLO_DEPTH.
WaveSamples == {-WavePeak, 0, WavePeak}
TremoloValues == {VolUnit - TREMOLO_DEPTH, VolUnit, VolUnit + TREMOLO_DEPTH}

\* Lines 387-396: what a voice adds to a channel of a frame.
VoiceOut(sample, vol, tremoloMod, pan, undef) ==
    IF vol = NaN THEN undef * pan
    ELSE Trunc(Trunc(sample * vol, VolUnit) * tremoloMod * pan, VolUnit)

RECURSIVE SumUpTo(_, _)
SumUpTo(c, n) == IF n < 0 THEN 0 ELSE c[n] + SumUpTo(c, n - 1)

\* Lines 359-408 for the voices vs: the exact sums the voices add to the
\* frames of a block; w[f][v] is the wavetable value voice v reads in frame f,
\* t[f] the tremolo factor of frame f.
VoiceSums(vs, w, t, undef) ==
    [f \in 1..BlockSize |->
        LET vol(v) == SmoothN(vs[v].targetVol, vs[v].currentVol, f)
        IN  [L |-> SumUpTo([v \in Channels |->
                       VoiceOut(w[f][v], vol(v), t[f], PanL(v), undef)],
                       NumSensors - 1),
             R |-> SumUpTo([v \in Channels |->
                       VoiceOut(w[f][v], vol(v), t[f], PanR(v), undef)],
                       NumSensors - 1)]]

\* What the oscillators and the tremolo may read in a block; the frames of a
\* block are given the same readings.
WaveDraws ==
    {[f \in 1..BlockSize |-> wv] : wv \in [Channels -> WaveSamples]}
TremoloDraws == {[f \in 1..BlockSize |-> tv] : tv \in TremoloValues}
HasNaN(vs) == \E v \in Channels : vs[v].targetVol = NaN \/ vs[v].currentVol = NaN

\* Line 274.
UnclearedBuffer == buffer
ClearedBuffer == ZeroBlock

\* ------------------------------------------------------ storage stream
FileEnd == WAV_HEADER_SIZE + dataLen

\* File::read(buf, n) at position pos: the bytes it returns (at most n, none
\* past the end of the file).
ReadAt(pos, n) ==
    LET avail == IF FileEnd > pos THEN FileEnd - pos ELSE 0
        k == Min(n, avail)
    IN  [i \in 1..k |-> pos + i - 1]

\* buf after a read stored data at offset off (0-based).
Overwrite(buf, off, data) ==
    [i \in 1..BlockSize |->
        IF i > off /\ i <= off + Len(data) THEN data[i - off] ELSE buf[i]]

\* memset(buf + from, 0, bufSize - from)
PadFrom(buf, from) ==
    [i \in 1..BlockSize |-> IF i > from THEN Pad ELSE buf[i]]

SameBuf(b) == b
OtherBuf(b) == IF b = "A" THEN "B" ELSE "A"

ClosedFile == [open |-> FALSE, pos |-> 0]

\* songReady = NULL after a processed close or open request.
InvalidatePrefetchKept == songReady
InvalidatePrefetch == "NULL"

\* songReady while the prefetch read is in progress: line 350 assigns it only
\* after the wrap-around continuation.
ReadyEarly(pf) == pf
ReadyWhileFilling(pf) == songReady

\* The wrap-around continuation of a short prefetch read.
WrapReadNone(remaining) == << >>
WrapRead(remaining) == ReadAt(WAV_HEADER_SIZE, remaining)

\* ------------------------------------------------------------ audioTask
AudioTop ==
    /\ phase = "run" /\ aPc = "top"
    /\ aPc' = IF needCloseSong THEN "close" ELSE "chkOpen"
    /\ UNCHANGED <<phase, prefsMode, audioMode, needOpenSong, needCloseSong,
                   cbPc, script, dataLen, songFile, songFileOpen, songReady,
                   songReadyBytes, blk, currentMode, songBuf, bytesRead,
                   filling, played, playedFrom, staleReady, playedStale,
                   badClose, leaked, droppedReady,
                   bleVars>>
    /\ UNCHANGED filterVars
    /\ UNCHANGED <<modeBeforeRestart, modeAtWrite, firstAfterOpen>>
    /\ UNCHANGED webVars
    /\ UNCHANGED paramVars
    /\ UNCHANGED synthVars

AudioClose ==
    /\ aPc = "close"
    /\ needCloseSong' = FALSE
    /\ writers' = Wrote("needCloseSong", "producer")
    /\ UNCHANGED lpState
    /\ IF songFileOpen
         THEN /\ songFile' = ClosedFile
              /\ badClose' = (badClose \/ ~songFile.open)
              /\ songFileOpen' = FALSE
         ELSE UNCHANGED <<songFile, badClose, songFileOpen>>
    /\ songReady' = InvalidatePrefetch
    /\ staleReady' = (songReady' # "NULL")
    /\ droppedReady' = (droppedReady \/ songReady # "NULL")
    /\ aPc' = "chkOpen"
    /\ UNCHANGED <<phase, prefsMode, audioMode, needOpenSong, cbPc, script,
                   dataLen, songReadyBytes, blk, currentMode, songBuf,
                   bytesRead, filling, played, playedFrom, playedStale,
                   leaked, bleVars>>
    /\ UNCHANGED <<modeBeforeRestart, modeAtWrite, firstAfterOpen>>
    /\ UNCHANGED webVars
    /\ UNCHANGED paramVars
    /\ UNCHANGED synthVars

AudioChkOpen ==
    /\ aPc = "chkOpen"
    /\ aPc' = IF needOpenSong THEN "open" ELSE "body"
    /\ UNCHANGED <<phase, prefsMode, audioMode, needOpenSong, needCloseSong,
                   cbPc, script, dataLen, songFile, songFileOpen, songReady,
                   songReadyBytes, blk, currentMode, songBuf, bytesRead,
                   filling, played, playedFrom, staleReady, playedStale,
                   badClose, leaked, droppedReady,
                   bleVars>>
    /\ UNCHANGED filterVars
    /\ UNCHANGED <<modeBeforeRestart, modeAtWrite, firstAfterOpen>>
    /\ UNCHANGED webVars
    /\ UNCHANGED paramVars
    /\ UNCHANGED synthVars

\* Lines 199-202: openSongFile() closes the handle first when songFileOpen.
OpenWithoutClose == FALSE
CloseBeforeOpen == songFileOpen

\* openSongFile(): found says whether SD.open("/SONG.WAV") returns a file.
AudioOpen(found) ==
    /\ aPc = "open"
    /\ needOpenSong' = FALSE
    /\ writers' = Wrote("needOpenSong", "producer")
    /\ UNCHANGED lpState
    /\ LET closedFirst == CloseBeforeOpen
           stillOpen == songFile.open /\ ~closedFirst
       IN  /\ badClose' = (badClose \/ (closedFirst /\ ~songFile.open))
           /\ leaked' = (leaked \/ stillOpen)
           /\ IF found
                THEN /\ songFile' = [open |-> TRUE, pos |-> WAV_HEADER_SIZE]
                     /\ songFileOpen' = TRUE
                ELSE /\ songFile' = ClosedFile
                     /\ songFileOpen' = FALSE
    /\ songReady' = InvalidatePrefetch
    /\ staleReady' = (songReady' # "NULL")
    /\ droppedReady' = (droppedReady \/ songReady # "NULL")
    /\ aPc' = "body"
    /\ UNCHANGED <<phase, prefsMode, audioMode, needCloseSong, cbPc, script,
                   dataLen, songReadyBytes, blk, currentMode, songBuf,
                   bytesRead, filling, played, playedFrom, playedStale,
                   bleVars>>
    /\ UNCHANGED <<modeBeforeRestart, modeAtWrite>>
    /\ firstAfterOpen' = found
    /\ UNCHANGED webVars
    /\ UNCHANGED paramVars
    /\ UNCHANGED synthVars

AudioBody ==
    /\ aPc = "body"
    /\ currentMode' = audioMode
    /\ aPc' = IF audioMode = 1 /\ songFileOpen THEN "song" ELSE "write"
    /\ UNCHANGED <<phase, prefsMode, audioMode, needOpenSong, needCloseSong,
                   cbPc, script, dataLen, songFile, songFileOpen, songReady,
                   songReadyBytes, blk, songBuf, bytesRead, filling, played,
                   playedFrom, staleReady, playedStale, badClose, leaked,
                   droppedReady,
                   bleVars>>
    /\ UNCHANGED filterVars
    /\ UNCHANGED <<modeBeforeRestart, modeAtWrite, firstAfterOpen>>
    /\ UNCHANGED webVars
    /\ UNCHANGED paramVars
    /\ buffer' = ClearedBuffer
    /\ mixSum' = ZeroBlock
    /\ UNCHANGED <<voices, bandVars, loopLocals, offCycle>>

\* Lines 283-292: take the prefetched block, or read one synchronously.
AudioSong ==
    /\ aPc = "song"
    /\ IF songReady # "NULL"
         THEN /\ songBuf' = songReady
              /\ bytesRead' = songReadyBytes
              /\ songReady' = "NULL"
              /\ playedFrom' = "prefetch"
              /\ playedStale' = (playedStale \/ staleReady)
              /\ staleReady' = FALSE
              /\ UNCHANGED <<songFile, blk>>
         ELSE LET r == ReadAt(songFile.pos, BlockSize)
              IN  /\ songBuf' = "A"
                  /\ bytesRead' = Len(r)
                  /\ blk' = [blk EXCEPT !["A"] = Overwrite(blk["A"], 0, r)]
                  /\ songFile' = [songFile EXCEPT !.pos = @ + Len(r)]
                  /\ playedFrom' = "sync"
                  /\ UNCHANGED <<songReady, playedStale, staleReady>>
    /\ aPc' = "filter"
    /\ UNCHANGED <<phase, prefsMode, audioMode, needOpenSong, needCloseSong,
                   cbPc, script, dataLen, songFileOpen, songReadyBytes,
                   currentMode, filling, played, badClose, leaked, droppedReady,
                   bleVars>>
    /\ UNCHANGED filterVars
    /\ UNCHANGED <<modeBeforeRestart, modeAtWrite>>
    /\ firstAfterOpen' = FALSE
    /\ UNCHANGED webVars
    /\ UNCHANGED paramVars
    /\ UNCHANGED synthVars

\* Lines 297-334: pad a short block and rewind, then filter songBuf into the
\* output buffer.
AudioFilter ==
    /\ aPc = "filter"
    /\ IF bytesRead < BlockSize
         THEN /\ blk' = [blk EXCEPT ![songBuf] = PadFrom(blk[songBuf], bytesRead)]
              /\ songFile' = [songFile EXCEPT !.pos = WAV_HEADER_SIZE]
         ELSE UNCHANGED <<blk, songFile>>
    /\ played' = blk'[songBuf]
    /\ lpState' = 1
    /\ writers' = Wrote("lpState", "producer")
    /\ aPc' = "prefetch"
    /\ UNCHANGED <<phase, prefsMode, audioMode, needOpenSong, needCloseSong,
                   cbPc, script, dataLen, songFileOpen, songReady,
                   songReadyBytes, currentMode, songBuf, bytesRead, filling,
                   playedFrom, staleReady, playedStale, badClose, leaked,
                   droppedReady,
                   bleVars>>
    /\ UNCHANGED <<modeBeforeRestart, modeAtWrite, firstAfterOpen>>
    /\ UNCHANGED webVars
    /\ UNCHANGED paramVars
    /\ \E undef \in IF NaN \in {trebleLvlR, trebleLvlL, bassLvlR, bassLvlL}
                      THEN UndefinedInt16 ELSE {0} :
          buffer' = [i \in 1..BlockSize |->
              LET raw == SampleOf(blk'[songBuf][i])
              IN  [L |-> SongMix(raw, bassLvlL, trebleLvlL, masterVol, undef),
                   R |-> SongMix(raw, bassLvlR, trebleLvlR, masterVol, undef)]]
    /\ UNCHANGED <<voices, bandVars, mixSum, loopLocals, offCycle>>

\* Lines 338-339: the prefetch read into the other block.
AudioPrefetch ==
    /\ aPc = "prefetch"
    /\ LET pf == OtherBuf(songBuf)
           r == ReadAt(songFile.pos, BlockSize)
       IN  /\ blk' = [blk EXCEPT ![pf] = Overwrite(blk[pf], 0, r)]
           /\ songFile' = [songFile EXCEPT !.pos = @ + Len(r)]
           /\ songReadyBytes' = Len(r)
           /\ filling' = IF Len(r) < BlockSize THEN pf ELSE "NULL"
           /\ songReady' = ReadyWhileFilling(pf)
           /\ aPc' = IF Len(r) < BlockSize THEN "wrap" ELSE "ready"
    /\ UNCHANGED <<phase, prefsMode, audioMode, needOpenSong, needCloseSong,
                   cbPc, script, dataLen, songFileOpen, currentMode, songBuf,
                   bytesRead, played, playedFrom, staleReady, playedStale,
                   badClose, leaked, droppedReady,
                   bleVars>>
    /\ UNCHANGED filterVars
    /\ UNCHANGED <<modeBeforeRestart, modeAtWrite, firstAfterOpen>>
    /\ UNCHANGED webVars
    /\ UNCHANGED paramVars
    /\ UNCHANGED synthVars

\* Lines 340-349: pad, rewind and read the wrap-around continuation.
AudioWrap ==
    /\ aPc = "wrap"
    /\ LET pf == OtherBuf(songBuf)
           remaining == BlockSize - songReadyBytes
           padded == PadFrom(blk[pf], songReadyBytes)
       IN  IF remaining > 0 /\ songFileOpen
             THEN LET r == WrapRead(remaining)
                  IN  /\ blk' = [blk EXCEPT ![pf] = Overwrite(padded, songReadyBytes, r)]
                      /\ songFile' = [songFile EXCEPT !.pos = WAV_HEADER_SIZE + Len(r)]
                      /\ songReadyBytes' = BlockSize
             ELSE /\ blk' = [blk EXCEPT ![pf] = padded]
                  /\ songFile' = [songFile EXCEPT !.pos = WAV_HEADER_SIZE]
                  /\ UNCHANGED songReadyBytes
    /\ filling' = "NULL"
    /\ aPc' = "ready"
    /\ UNCHANGED <<phase, prefsMode, audioMode, needOpenSong, needCloseSong,
                   cbPc, script, dataLen, songFileOpen, songReady, currentMode,
                   songBuf, bytesRead, played, playedFrom, staleReady,
                   playedStale, badClose, leaked, droppedReady,
                   bleVars>>
    /\ UNCHANGED filterVars
    /\ UNCHANGED <<modeBeforeRestart, modeAtWrite, firstAfterOpen>>
    /\ UNCHANGED webVars
    /\ UNCHANGED paramVars
    /\ UNCHANGED synthVars

\* Line 350: songReady = prefetchBuf.
AudioReady ==
    /\ aPc = "ready"
    /\ songReady' = OtherBuf(songBuf)
    /\ staleReady' = FALSE
    /\ aPc' = "write"
    /\ UNCHANGED <<phase, prefsMode, audioMode, needOpenSong, needCloseSong,
                   cbPc, script, dataLen, songFile, songFileOpen,
                   songReadyBytes, blk, currentMode, songBuf, bytesRead,
                   filling, played, playedFrom, playedStale, badClose, leaked,
                   droppedReady,
                   bleVars>>
    /\ UNCHANGED filterVars
    /\ UNCHANGED <<modeBeforeRestart, modeAtWrite, firstAfterOpen>>
    /\ UNCHANGED webVars
    /\ UNCHANGED paramVars
    /\ UNCHANGED synthVars

\* Lines 353-436: in mode 0 the voices are smoothed and mixed into the block
\* (w and t are what the oscillators and the tremolo read); then clamp (no
\* int16_t is out of range), i2s_channel_write, yield. The locals of the loop body
\* go out of scope.
AudioEmit(w, t) ==
    /\ aPc = "write"
    /\ aPc' = "top"
    /\ currentMode' = 0
    /\ songBuf' = "NULL"
    /\ bytesRead' = 0
    /\ UNCHANGED <<phase, prefsMode, audioMode, needOpenSong, needCloseSong,
                   cbPc, script, dataLen, songFile, songFileOpen, songReady,
                   songReadyBytes, blk, filling, played, playedFrom,
                   staleReady, playedStale, badClose, leaked, droppedReady,
                   bleVars>>
    /\ UNCHANGED filterVars
    /\ UNCHANGED <<modeBeforeRestart, modeAtWrite, firstAfterOpen>>
    /\ UNCHANGED webVars
    /\ UNCHANGED paramVars
    /\ IF currentMode = 0
         THEN \E undef \in IF HasNaN(voices) THEN UndefinedInt16 ELSE {0} :
                LET sums == VoiceSums(voices, w, t, undef)
                IN  /\ mixSum' = sums
                    /\ buffer' = [f \in 1..BlockSize |->
                          [L |-> Add16(buffer[f].L, sums[f].L),
                           R |-> Add16(buffer[f].R, sums[f].R)]]
                    /\ voices' = [v \in Channels |->
                          [voices[v] EXCEPT !.currentVol =
                              SmoothN(voices[v].targetVol,
                                      voices[v].currentVol, BlockSize)]]
         ELSE UNCHANGED <<voices, buffer, mixSum>>
    /\ UNCHANGED <<bandVars, loopLocals, offCycle>>

\* The audio task's blocks are followed through their loudest frames: every
\* oscillator at the table's peak, the tremolo at its maximum.
AudioWrite ==
    AudioEmit([f \in 1..BlockSize |-> [v \in Channels |-> WavePeak]],
              [f \in 1..BlockSize |-> VolUnit + TREMOLO_DEPTH])

\* The same step for any table values and tremolo factors.
AudioWriteAny == \E w \in WaveDraws, t \in TremoloDraws : AudioEmit(w, t)

AudioTask ==
    \/ AudioTop
    \/ AudioClose
    \/ AudioChkOpen
    \/ \E found \in BOOLEAN : AudioOpen(found)
    \/ AudioBody
    \/ AudioSong
    \/ AudioFilter
    \/ AudioPrefetch
    \/ AudioWrap
    \/ AudioReady
    \/ AudioWrite


\* --------------------------------------- MyCharacteristicCallbacks::onWrite
\* Line 547-549: a MODE frame is parsed and its value persisted; the branch
\* taken is the callback's next position.
OnWriteBegin(frame) ==
    /\ phase = "run" /\ cbPc = "idle"
    /\ frame.cmd = "MODE"
    /\ prefsMode' = frame.val
    /\ cbPc' = CASE frame.val = 0 -> "m0_mode"
                 [] frame.val = 1 -> "m1_open"
                 [] OTHER -> "idle"
    /\ UNCHANGED <<phase, audioMode, needOpenSong, needCloseSong, dataLen,
                   audioVars, bleVars>>
    /\ UNCHANGED filterVars
    /\ UNCHANGED <<modeBeforeRestart, firstAfterOpen>>
    /\ UNCHANGED webVars
    /\ modeAtWrite' = IF frame.val \in {0, 1} THEN {audioMode} ELSE {}
    /\ UNCHANGED paramVars
    /\ UNCHANGED synthVars

\* Line 551: audioMode = 0.
ModeZeroSetMode ==
    /\ cbPc = "m0_mode"
    /\ audioMode' = 0
    /\ cbPc' = "m0_close"
    /\ UNCHANGED <<phase, prefsMode, needOpenSong, needCloseSong, script,
                   dataLen, audioVars, bleVars>>
    /\ UNCHANGED filterVars
    /\ UNCHANGED <<modeBeforeRestart, modeAtWrite, firstAfterOpen>>
    /\ UNCHANGED webVars
    /\ UNCHANGED paramVars
    /\ UNCHANGED synthVars

\* Lines 552-561: needCloseSong = true, then the voices are re-tuned and
\* silenced.
ModeZeroRequestCloseDirect ==
    /\ cbPc = "m0_close"
    /\ songFile' = ClosedFile
    /\ songFileOpen' = FALSE
    /\ cbPc' = "idle"
    /\ UNCHANGED <<phase, prefsMode, audioMode, needOpenSong, needCloseSong,
                   script, dataLen, songReady, songReadyBytes, blk, aPc,
                   currentMode, songBuf, bytesRead, filling, played,
                   playedFrom, staleReady, playedStale, badClose, leaked,
                   droppedReady,
                   bleVars>>
    /\ UNCHANGED filterVars
    /\ UNCHANGED <<modeBeforeRestart, firstAfterOpen>>
    /\ UNCHANGED webVars
    /\ modeAtWrite' = {}
    /\ UNCHANGED paramVars
    /\ voices' = Retuned(voices)
    /\ UNCHANGED <<bandVars, buffer, mixSum, loopLocals, offCycle>>

ModeZeroRequestClose ==
    /\ cbPc = "m0_close"
    /\ needCloseSong' = TRUE
    /\ writers' = Wrote("needCloseSong", "control")
    /\ UNCHANGED lpState
    /\ cbPc' = "idle"
    /\ UNCHANGED <<phase, prefsMode, audioMode, needOpenSong, script, dataLen,
                   audioVars, bleVars>>
    /\ UNCHANGED <<modeBeforeRestart, firstAfterOpen>>
    /\ UNCHANGED webVars
    /\ modeAtWrite' = {}
    /\ UNCHANGED paramVars
    /\ voices' = Retuned(voices)
    /\ UNCHANGED <<bandVars, buffer, mixSum, loopLocals, offCycle>>

\* Lines 564-568: the voices are silenced, the filter state reset, then
\* needOpenSong = true.
ModeOneRequestOpen ==
    /\ cbPc = "m1_open"
    /\ resetFilterState
    /\ needOpenSong' = TRUE
    /\ writers' = [writers EXCEPT !["lpState"] = @ \cup {"control"},
                                  !["needOpenSong"] = @ \cup {"control"}]
    /\ cbPc' = "m1_mode"
    /\ UNCHANGED <<phase, prefsMode, audioMode, needCloseSong, script, dataLen,
                   audioVars, bleVars>>
    /\ UNCHANGED <<modeBeforeRestart, modeAtWrite, firstAfterOpen>>
    /\ UNCHANGED webVars
    /\ UNCHANGED paramVars
    /\ voices' = Silenced(voices)
    /\ UNCHANGED <<buffer, mixSum, loopLocals, offCycle>>

\* Line 569: audioMode = 1.
ModeOneSetMode ==
    /\ cbPc = "m1_mode"
    /\ audioMode' = 1
    /\ cbPc' = "idle"
    /\ UNCHANGED <<phase, prefsMode, needOpenSong, needCloseSong, script,
                   dataLen, audioVars, bleVars>>
    /\ UNCHANGED filterVars
    /\ UNCHANGED <<modeBeforeRestart, firstAfterOpen>>
    /\ UNCHANGED webVars
    /\ modeAtWrite' = {}
    /\ UNCHANGED paramVars
    /\ UNCHANGED synthVars

OnWriteSteps ==
    \/ ModeZeroSetMode
    \/ ModeZeroRequestClose
    \/ ModeOneRequestOpen
    \/ ModeOneSetMode

\* The remote writes any MODE frame.
RemoteWrite ==
    \E frame \in ModeFrames : OnWriteBegin(frame) /\ UNCHANGED script

\* The remote writes the next frame of the script.
ScriptWrite ==
    /\ script # << >>
    /\ OnWriteBegin(Head(script))
    /\ script' = Tail(script)

\* ------------------------------------------------------------------ setup
\* Lines 634-644: the persisted mode is restored and the filter state reset;
\* the tasks are created afterwards (lines 681, 727).
\* Line 681 starts the audio task at a priority above setup()'s on the same
\* core, so its allocations (lines 238-247) are made before setup() goes on:
\* when one fails the task deletes itself, and setup() continues with the
\* BLE initialisation either way.
SetupWith(allocated) ==
    /\ phase = "boot"
    /\ audioMode' = prefsMode
    /\ needOpenSong' = (prefsMode = 1)
    /\ resetFilterState
    /\ voices' = VoicesAtSetup
    /\ aPc' = IF allocated THEN "top" ELSE "deleted"
    /\ phase' = "run"
    /\ UNCHANGED writers
    /\ UNCHANGED <<prefsMode, needCloseSong, cbPc, script, dataLen, songFile,
                   songFileOpen, songReady, songReadyBytes, blk, currentMode,
                   songBuf, bytesRead, filling, played, playedFrom,
                   staleReady, playedStale, droppedReady, badClose, leaked,
                   bleVars>>
    /\ UNCHANGED <<modeBeforeRestart, modeAtWrite, firstAfterOpen>>
    /\ UNCHANGED webVars
    /\ UNCHANGED paramVars
    /\ UNCHANGED <<buffer, mixSum, loopLocals, offCycle>>

Setup == \E allocated \in BOOLEAN : SetupWith(allocated)

\* ---------------------------------------------------------- initial states
AudioInit ==
    /\ songFile = ClosedFile
    /\ songFileOpen = FALSE
    /\ songReady = "NULL"
    /\ songReadyBytes = 0
    /\ blk = [b \in Bufs |-> [i \in 1..BlockSize |-> Uninit]]
    /\ aPc = "top"
    /\ currentMode = 0
    /\ songBuf = "NULL"
    /\ bytesRead = 0
    /\ filling = "NULL"
    /\ played = << >>
    /\ playedFrom = "none"
    /\ staleReady = FALSE
    /\ playedStale = FALSE
    /\ droppedReady = FALSE
    /\ badClose = FALSE
    /\ leaked = FALSE
    /\ lpState = 0
    /\ writers = NoWriters


\* Lines 27-37: the initialisers of the runtime parameters; no control cycle
\* has run and no SENSITIVITY frame has been written.
ParamInit ==
    /\ sensorMaxVol = [i \in Channels |-> PercentMax]
    /\ sensorBaselines = [i \in Channels |-> DefaultBaseline]
    /\ sensorThresholds = [i \in Channels |-> DefaultThreshold]
    /\ masterVol = PercentMax
    /\ systemOn = TRUE
    /\ frontExp = DefaultFrontExp
    /\ backExp = ExpHigh
    /\ sensorValues = [i \in Channels |-> 0]
    /\ force = [i \in Channels |-> 0]
    /\ normalizedForce = [i \in Channels |-> [num |-> 0, den |-> 1]]
    /\ slider = {}

BleInit ==
    /\ deviceConnected = FALSE
    /\ oldDeviceConnected = FALSE
    /\ bleNeedsSend = FALSE
    /\ lastBleUpdateMs = 0
    /\ blePayload = 0
    /\ clock = 1
    /\ lPc = "chk"
    /\ nPc = "poll"
    /\ nowLocal = 0
    /\ linkLost = FALSE
    /\ frameState = "none"
    /\ frameClobbered = FALSE
    /\ frameResent = FALSE
    /\ hbSinceMark = 0
    /\ lastEventAt = 0
    /\ prevHbStamp = -1
    /\ hbTooSoon = FALSE
    /\ missedHb = FALSE
    /\ lossUnhandled = FALSE

\* First power-on: the globals hold their initialisers, the NVS store has no
\* "mode" key yet (getInt returns the default 0), the card holds a stream of
\* some length.
Init ==
    /\ phase = "boot"
    /\ prefsMode = 0
    /\ audioMode = 0
    /\ needOpenSong = FALSE
    /\ needCloseSong = FALSE
    /\ cbPc = "idle"
    /\ script = << >>
    /\ dataLen \in 1..MaxLen
    /\ modeBeforeRestart = {}
    /\ modeAtWrite = {}
    /\ firstAfterOpen = FALSE
    /\ WebInit
    /\ AudioInit
    /\ BleInit
    /\ ParamInit
    /\ SynthInit

\* A reset or power cycle between two commands: every global is back at its
\* initialiser, the tasks are gone, the NVS store and the card keep their
\* contents. setup() runs next.
Restart ==
    /\ phase = "run" /\ cbPc = "idle"
    /\ modeBeforeRestart' = {audioMode}
    /\ firstAfterOpen' = FALSE
    /\ UNCHANGED webVars
    /\ modeAtWrite' = {}
    /\ phase' = "boot"
    /\ audioMode' = 0
    /\ needOpenSong' = FALSE
    /\ needCloseSong' = FALSE
    /\ songFile' = ClosedFile
    /\ songFileOpen' = FALSE
    /\ songReady' = "NULL"
    /\ songReadyBytes' = 0
    /\ blk' = [b \in Bufs |-> [i \in 1..BlockSize |-> Uninit]]
    /\ aPc' = "top"
    /\ currentMode' = 0
    /\ songBuf' = "NULL"
    /\ bytesRead' = 0
    /\ filling' = "NULL"
    /\ played' = << >>
    /\ playedFrom' = "none"
    /\ staleReady' = FALSE
    /\ playedStale' = FALSE
    /\ droppedReady' = FALSE
    /\ badClose' = FALSE
    /\ leaked' = FALSE
    /\ lpState' = 0
    /\ writers' = NoWriters
    /\ sensorMaxVol' = [i \in Channels |-> PercentMax]
    /\ sensorBaselines' = [i \in Channels |-> DefaultBaseline]
    /\ sensorThresholds' = [i \in Channels |-> DefaultThreshold]
    /\ masterVol' = PercentMax
    /\ systemOn' = TRUE
    /\ frontExp' = DefaultFrontExp
    /\ backExp' = ExpHigh
    /\ sensorValues' = [i \in Channels |-> 0]
    /\ force' = [i \in Channels |-> 0]
    /\ normalizedForce' = [i \in Channels |-> [num |-> 0, den |-> 1]]
    /\ slider' = {}
    /\ UNCHANGED <<prefsMode, cbPc, script, dataLen, bleVars>>
    /\ voices' = ZeroVoices
    /\ ResetBands
    /\ buffer' = ZeroBlock
    /\ mixSum' = ZeroBlock
    /\ loopStage' = "sample"
    /\ loopOn' = TRUE
    /\ loopMode' = 0
    /\ offCycle' = FALSE

Next == Setup \/ RemoteWrite \/ OnWriteSteps \/ AudioTask \/ Restart

Spec == Init /\ [][Next]_vars

\* Song mode with the stream just opened by the audio task (the state Spec
\* reaches from a persisted mode 1), and MODE:1, MODE:0 about to be written.
ScenarioInit ==
    /\ phase = "run"
    /\ prefsMode = 1
    /\ audioMode = 1
    /\ needOpenSong = FALSE
    /\ needCloseSong = FALSE
    /\ cbPc = "idle"
    /\ script = << [cmd |-> "MODE", val |-> 1], [cmd |-> "MODE", val |-> 0] >>
    /\ dataLen \in 1..MaxLen
    /\ songFile = [open |-> TRUE, pos |-> WAV_HEADER_SIZE]
    /\ songFileOpen = TRUE
    /\ songReady = "NULL"
    /\ songReadyBytes = 0
    /\ blk = [b \in Bufs |-> [i \in 1..BlockSize |-> Uninit]]
    /\ aPc = "body"
    /\ currentMode = 0
    /\ songBuf = "NULL"
    /\ bytesRead = 0
    /\ filling = "NULL"
    /\ played = << >>
    /\ playedFrom = "none"
    /\ staleReady = FALSE
    /\ playedStale = FALSE
    /\ droppedReady = FALSE
    /\ badClose = FALSE
    /\ leaked = FALSE
    /\ lpState = 0
    /\ writers = NoWriters
    /\ modeBeforeRestart = {}
    /\ modeAtWrite = {}
    /\ firstAfterOpen = TRUE
    /\ WebInit
    /\ BleInit
    /\ ParamInit
    /\ SynthAfterSetup

ScenarioNext == ScriptWrite \/ OnWriteSteps \/ AudioTask

ScenarioSpec == ScenarioInit /\ [][ScenarioNext]_vars


\* ============================================================ telemetry
\* now - lastBleUpdateMs on unsigned long.
ClockSub(a, b) == (a - b + ClockModulus) % ClockModulus

\* ------------------------------------------------------ loop(), BLE part
\* Line 819: if (deviceConnected && !bleNeedsSend).
LoopMayWriteIgnoringPending == deviceConnected
LoopMayWrite == deviceConnected /\ ~bleNeedsSend

LoopCheck ==
    /\ lPc = "chk"
    /\ lPc' = IF LoopMayWrite THEN "ser" ELSE "maint"
    /\ UNCHANGED <<deviceConnected, oldDeviceConnected, bleNeedsSend,
                   lastBleUpdateMs, blePayload, clock, nPc, nowLocal, bleHist,
                   streamVars>>
    /\ UNCHANGED lossUnhandled
    /\ UNCHANGED paramVars
    /\ UNCHANGED synthVars

\* Lines 820-822: snprintf into blePayload.
LoopSerialize ==
    /\ lPc = "ser"
    /\ blePayload' = (blePayload + 1) % FrameIds
    /\ frameClobbered' = (frameClobbered \/ frameState = "marked")
    /\ frameState' = "written"
    /\ lPc' = "mark"
    /\ UNCHANGED <<deviceConnected, oldDeviceConnected, bleNeedsSend,
                   lastBleUpdateMs, clock, nPc, nowLocal, linkLost,
                   frameResent, hbSinceMark, lastEventAt, prevHbStamp,
                   hbTooSoon, missedHb, streamVars>>
    /\ UNCHANGED lossUnhandled
    /\ UNCHANGED paramVars
    /\ UNCHANGED synthVars

\* Line 823: bleNeedsSend = true.
LoopMark ==
    /\ lPc = "mark"
    /\ bleNeedsSend' = TRUE
    /\ frameState' = "marked"
    /\ hbSinceMark' = 0
    /\ lastEventAt' = clock
    /\ lPc' = "stamp"
    /\ UNCHANGED <<deviceConnected, oldDeviceConnected, lastBleUpdateMs,
                   blePayload, clock, nPc, nowLocal, linkLost, frameClobbered,
                   frameResent, prevHbStamp, hbTooSoon, missedHb, streamVars>>
    /\ UNCHANGED lossUnhandled
    /\ UNCHANGED paramVars
    /\ UNCHANGED synthVars

\* Line 824: lastBleUpdateMs = millis().
LoopStamp ==
    /\ lPc = "stamp"
    /\ lastBleUpdateMs' = clock
    /\ prevHbStamp' = -1
    /\ lastEventAt' = clock
    /\ lPc' = "maint"
    /\ UNCHANGED <<deviceConnected, oldDeviceConnected, bleNeedsSend,
                   blePayload, clock, nPc, nowLocal, linkLost, frameState,
                   frameClobbered, frameResent, hbSinceMark, hbTooSoon, missedHb, streamVars>>
    /\ UNCHANGED lossUnhandled
    /\ UNCHANGED paramVars
    /\ UNCHANGED synthVars

\* Line 828: if (!deviceConnected && oldDeviceConnected).
LoopMaintenance ==
    /\ lPc = "maint"
    /\ lPc' = IF ~deviceConnected /\ oldDeviceConnected THEN "lost_flag"
                                                         ELSE "conn"
    /\ UNCHANGED <<deviceConnected, oldDeviceConnected, bleNeedsSend,
                   lastBleUpdateMs, blePayload, clock, nPc, nowLocal, bleHist,
                   streamVars>>
    /\ UNCHANGED lossUnhandled
    /\ UNCHANGED paramVars
    /\ UNCHANGED synthVars

\* Line 830: bleNeedsSend = false. The frame pending at a link loss is dropped.
LoopLostFlag ==
    /\ lPc = "lost_flag"
    /\ bleNeedsSend' = FALSE
    /\ frameState' = IF frameState = "marked" THEN "none" ELSE frameState
    /\ lPc' = "lost_timer"
    /\ UNCHANGED <<deviceConnected, oldDeviceConnected, lastBleUpdateMs,
                   blePayload, clock, nPc, nowLocal, linkLost, frameClobbered,
                   frameResent, hbSinceMark, lastEventAt, prevHbStamp,
                   hbTooSoon, missedHb, streamVars>>
    /\ UNCHANGED lossUnhandled
    /\ UNCHANGED paramVars
    /\ UNCHANGED synthVars

\* Line 831: lastBleUpdateMs = 0.
LoopLostTimer ==
    /\ lPc = "lost_timer"
    /\ lastBleUpdateMs' = 0
    /\ prevHbStamp' = -1
    /\ lastEventAt' = clock
    /\ lPc' = "lost_adv"
    /\ UNCHANGED <<deviceConnected, oldDeviceConnected, bleNeedsSend,
                   blePayload, clock, nPc, nowLocal, linkLost, frameState,
                   frameClobbered, frameResent, hbSinceMark, hbTooSoon, missedHb, streamVars>>
    /\ UNCHANGED lossUnhandled
    /\ UNCHANGED paramVars
    /\ UNCHANGED synthVars

\* Lines 832-835: delay(500), startAdvertising(),
\* oldDeviceConnected = deviceConnected.
LoopLostAdvertise ==
    /\ lPc = "lost_adv"
    /\ oldDeviceConnected' = deviceConnected
    /\ lossUnhandled' = FALSE
    /\ lPc' = "conn"
    /\ UNCHANGED <<deviceConnected, bleNeedsSend, lastBleUpdateMs, blePayload,
                   clock, nPc, nowLocal, bleHist, streamVars>>
    /\ UNCHANGED paramVars
    /\ UNCHANGED synthVars

\* Line 838: if (deviceConnected && !oldDeviceConnected); otherwise the cycle
\* ends (lines 844-857: heap log, delay(50)).
LoopConnCheck ==
    /\ lPc = "conn"
    /\ lPc' = IF deviceConnected /\ ~oldDeviceConnected THEN "conn_old"
                                                         ELSE "chk"
    /\ UNCHANGED <<deviceConnected, oldDeviceConnected, bleNeedsSend,
                   lastBleUpdateMs, blePayload, clock, nPc, nowLocal, bleHist,
                   streamVars>>
    /\ UNCHANGED lossUnhandled
    /\ UNCHANGED paramVars
    /\ UNCHANGED synthVars

\* Line 839: oldDeviceConnected = deviceConnected.
LoopConnOld ==
    /\ lPc = "conn_old"
    /\ oldDeviceConnected' = deviceConnected
    /\ lPc' = "conn_timer"
    /\ UNCHANGED <<deviceConnected, bleNeedsSend, lastBleUpdateMs, blePayload,
                   clock, nPc, nowLocal, bleHist, streamVars>>
    /\ UNCHANGED lossUnhandled
    /\ UNCHANGED paramVars
    /\ UNCHANGED synthVars

\* Line 840: lastBleUpdateMs = millis(); the cycle ends.
LoopConnTimer ==
    /\ lPc = "conn_timer"
    /\ lastBleUpdateMs' = clock
    /\ prevHbStamp' = -1
    /\ lastEventAt' = clock
    /\ lPc' = "chk"
    /\ UNCHANGED <<deviceConnected, oldDeviceConnected, bleNeedsSend,
                   blePayload, clock, nPc, nowLocal, linkLost, frameState,
                   frameClobbered, frameResent, hbSinceMark, hbTooSoon, missedHb, streamVars>>
    /\ UNCHANGED lossUnhandled
    /\ UNCHANGED paramVars
    /\ UNCHANGED synthVars

LoopBle ==
    \/ LoopCheck
    \/ LoopSerialize
    \/ LoopMark
    \/ LoopStamp
    \/ LoopMaintenance
    \/ LoopLostFlag
    \/ LoopLostTimer
    \/ LoopLostAdvertise
    \/ LoopConnCheck
    \/ LoopConnOld
    \/ LoopConnTimer

\* ---------------------------------------------------------- bleNotifyTask
\* Lines 594-595 and 602: with the link up, a pending frame is sent;
\* otherwise now = millis() is sampled for the heartbeat test.
NotifyPoll ==
    /\ nPc = "poll"
    /\ deviceConnected
    /\ IF bleNeedsSend
         THEN nPc' = "send" /\ UNCHANGED nowLocal
         ELSE nPc' = "hbchk" /\ nowLocal' = clock
    /\ UNCHANGED <<deviceConnected, oldDeviceConnected, bleNeedsSend,
                   lastBleUpdateMs, blePayload, clock, lPc, bleHist,
                   streamVars>>
    /\ UNCHANGED lossUnhandled
    /\ UNCHANGED paramVars
    /\ UNCHANGED synthVars

\* Lines 597-598: setValue(blePayload); notify().
NotifySend ==
    /\ nPc = "send"
    /\ frameResent' = (frameResent \/ frameState # "marked")
    /\ frameState' = IF frameState = "marked" THEN "sent" ELSE frameState
    /\ nPc' = "clear"
    /\ UNCHANGED <<deviceConnected, oldDeviceConnected, bleNeedsSend,
                   lastBleUpdateMs, blePayload, clock, lPc, nowLocal, linkLost,
                   frameClobbered, hbSinceMark, lastEventAt, prevHbStamp,
                   hbTooSoon, missedHb, streamVars>>
    /\ UNCHANGED lossUnhandled
    /\ UNCHANGED paramVars
    /\ UNCHANGED synthVars

\* Line 599: bleNeedsSend = false.
NotifyClear ==
    /\ nPc = "clear"
    /\ bleNeedsSend' = FALSE
    /\ frameClobbered' = (frameClobbered \/ frameState = "marked")
    /\ nPc' = "poll"
    /\ UNCHANGED <<deviceConnected, oldDeviceConnected, lastBleUpdateMs,
                   blePayload, clock, lPc, nowLocal, linkLost, frameState,
                   frameResent, hbSinceMark, lastEventAt, prevHbStamp,
                   hbTooSoon, missedHb, streamVars>>
    /\ UNCHANGED lossUnhandled
    /\ UNCHANGED paramVars
    /\ UNCHANGED synthVars

\* Line 603: the heartbeat test.
HeartbeatDue ==
    /\ lastBleUpdateMs > 0
    /\ ClockSub(nowLocal, lastBleUpdateMs) > HeartbeatTimeout

\* The stall window has really passed: the link is up, nothing is pending, and
\* the last connect, mark, heartbeat or timer write of the loop is more than
\* a window older than the sampled time.
StallWindowExceeded ==
    /\ deviceConnected /\ ~bleNeedsSend
    /\ nowLocal - lastEventAt > HeartbeatTimeout

NotifyHbCheck ==
    /\ nPc = "hbchk"
    /\ nPc' = IF HeartbeatDue THEN "hbsend" ELSE "poll"
    /\ nowLocal' = IF HeartbeatDue THEN nowLocal ELSE 0
    /\ missedHb' = (missedHb \/ (~HeartbeatDue /\ StallWindowExceeded))
    /\ UNCHANGED <<deviceConnected, oldDeviceConnected, bleNeedsSend,
                   lastBleUpdateMs, blePayload, clock, lPc, linkLost,
                   frameState, frameClobbered, frameResent, hbSinceMark,
                   lastEventAt, prevHbStamp, hbTooSoon, streamVars>>
    /\ UNCHANGED lossUnhandled
    /\ UNCHANGED paramVars
    /\ UNCHANGED synthVars

\* Lines 605-606: setValue("{\"hb\":1}"); notify().
NotifyHbSendClearsPending ==
    /\ nPc = "hbsend"
    /\ bleNeedsSend' = FALSE
    /\ nPc' = "hbreset"
    /\ UNCHANGED <<deviceConnected, oldDeviceConnected, lastBleUpdateMs,
                   blePayload, clock, lPc, nowLocal, bleHist, streamVars>>
    /\ UNCHANGED lossUnhandled
    /\ UNCHANGED paramVars
    /\ UNCHANGED synthVars

NotifyHbSend ==
    /\ nPc = "hbsend"
    /\ hbSinceMark' = IF deviceConnected
                        THEN Min(hbSinceMark + 1, MaxHeartbeats)
                        ELSE hbSinceMark
    /\ hbTooSoon' = (hbTooSoon \/ (/\ prevHbStamp # -1
                                   /\ nowLocal - prevHbStamp <= HeartbeatTimeout))
    /\ prevHbStamp' = nowLocal
    /\ lastEventAt' = clock
    /\ nPc' = "hbreset"
    /\ UNCHANGED <<deviceConnected, oldDeviceConnected, bleNeedsSend,
                   lastBleUpdateMs, blePayload, clock, lPc, nowLocal, linkLost,
                   frameState, frameClobbered, frameResent, missedHb,
                   streamVars>>
    /\ UNCHANGED lossUnhandled
    /\ UNCHANGED paramVars
    /\ UNCHANGED synthVars

\* Line 607: lastBleUpdateMs = now.
NotifyHbResetKeepsTimer ==
    /\ nPc = "hbreset"
    /\ nowLocal' = 0
    /\ nPc' = "poll"
    /\ UNCHANGED <<deviceConnected, oldDeviceConnected, bleNeedsSend,
                   lastBleUpdateMs, blePayload, clock, lPc, bleHist,
                   streamVars>>
    /\ UNCHANGED lossUnhandled
    /\ UNCHANGED paramVars
    /\ UNCHANGED synthVars

NotifyHbReset ==
    /\ nPc = "hbreset"
    /\ lastBleUpdateMs' = nowLocal
    /\ nowLocal' = 0
    /\ nPc' = "poll"
    /\ UNCHANGED <<deviceConnected, oldDeviceConnected, bleNeedsSend,
                   blePayload, clock, lPc, bleHist, streamVars>>
    /\ UNCHANGED lossUnhandled
    /\ UNCHANGED paramVars
    /\ UNCHANGED synthVars

NotifyTask ==
    \/ NotifyPoll
    \/ NotifySend
    \/ NotifyClear
    \/ NotifyHbCheck
    \/ NotifyHbSend
    \/ NotifyHbReset

\* ------------------------------------------------------ MyServerCallbacks
\* Neither task is inside its frame handling and nothing is pending.
TelemetryAtRest ==
    /\ nPc = "poll"
    /\ lPc \in {"chk", "maint", "conn"}
    /\ ~bleNeedsSend

\* Line 442: deviceConnected = true. A connection made with the telemetry at
\* rest starts a fresh history.
OnConnect ==
    /\ ~deviceConnected
    /\ deviceConnected' = TRUE
    /\ lastEventAt' = clock
    /\ hbSinceMark' = 0
    /\ linkLost' = (linkLost /\ ~TelemetryAtRest)
    /\ frameClobbered' = (frameClobbered /\ ~TelemetryAtRest)
    /\ frameResent' = (frameResent /\ ~TelemetryAtRest)
    /\ frameState' = IF TelemetryAtRest /\ frameState # "sent" THEN "none"
                                                                ELSE frameState
    /\ UNCHANGED <<oldDeviceConnected, bleNeedsSend, lastBleUpdateMs,
                   blePayload, clock, lPc, nPc, nowLocal, prevHbStamp,
                   hbTooSoon, missedHb, streamVars>>
    /\ UNCHANGED lossUnhandled
    /\ UNCHANGED paramVars
    /\ UNCHANGED synthVars

\* Line 456: deviceConnected = false.
OnDisconnect ==
    /\ deviceConnected
    /\ deviceConnected' = FALSE
    /\ linkLost' = TRUE
    /\ lossUnhandled' = TRUE
    /\ UNCHANGED <<oldDeviceConnected, bleNeedsSend, lastBleUpdateMs,
                   blePayload, clock, lPc, nPc, nowLocal, frameState,
                   frameClobbered, frameResent, hbSinceMark, lastEventAt,
                   prevHbStamp, hbTooSoon, missedHb, streamVars>>
    /\ UNCHANGED paramVars
    /\ UNCHANGED synthVars

\* millis() advances.
Tick ==
    /\ clock < MaxTime
    /\ clock' = clock + 1
    /\ UNCHANGED <<deviceConnected, oldDeviceConnected, bleNeedsSend,
                   lastBleUpdateMs, blePayload, lPc, nPc, nowLocal, bleHist,
                   streamVars>>
    /\ UNCHANGED lossUnhandled
    /\ UNCHANGED paramVars
    /\ UNCHANGED synthVars

\* setup() has run; the audio side stays where it started.
BleSpecInit ==
    /\ phase = "run"
    /\ prefsMode = 0
    /\ audioMode = 0
    /\ needOpenSong = FALSE
    /\ needCloseSong = FALSE
    /\ cbPc = "idle"
    /\ script = << >>
    /\ dataLen = 1
    /\ modeBeforeRestart = {}
    /\ modeAtWrite = {}
    /\ firstAfterOpen = FALSE
    /\ WebInit
    /\ AudioInit
    /\ BleInit
    /\ ParamInit
    /\ SynthAfterSetup

BleNext == LoopBle \/ NotifyTask \/ OnConnect \/ OnDisconnect \/ Tick

BleSpec == BleSpecInit /\ [][BleNext]_vars

\* loop() and bleNotifyTask are FreeRTOS tasks that never block for good
\* (delay(50), vTaskDelay(20)): each keeps taking steps. The link callbacks
\* and the progress of millis() are up to the environment.
BleFairSpec == BleSpec /\ WF_vars(LoopBle) /\ WF_vars(NotifyTask)

\* ======================================================== command frames
\* A frame is the text written to the characteristic: cmd is what precedes the
\* first ':', sep says whether there is a ':', fields are the pieces of the
\* payload between its commas. A field is a number, <<n>>, or empty text.
Empty == << >>

\* atoi / atof of the text that starts at a field: its number, 0 for text
\* that is no number.
Atoi(f) == IF f = Empty THEN 0 ELSE f[1]

\* Lines 220-230: parseCsvInts takes one value per field while text is left
\* and fewer than maxOut values are taken; the values it returns.
ParseCsvInts(fields, maxOut) ==
    LET n == IF fields[Len(fields)] = Empty THEN Len(fields) - 1
                                            ELSE Len(fields)
        count == Min(n, maxOut)
    IN  [k \in 1..count |-> Atoi(fields[k])]

\* Lines 516-517, 542-543, 576-577: the payload clamped to 0..100.
ClampPercentNoUpper(v) == IF v < 0 THEN 0 ELSE v
ClampPercent(v) == IF v < 0 THEN 0 ELSE IF v > PercentMax THEN PercentMax ELSE v

\* Lines 578-581: the exponents for the clamped slider value s.
FrontExponentRising(s) == ExpLow + ExpSlope * s
FrontExponent(s) == ExpHigh - ExpSlope * s
BackExponent(s) == ExpLow + ExpSlope * s

\* Lines 481-546 and 573-583: onWrite for a frame of two or more bytes other
\* than MODE. A frame without ':' returns at line 490, an unknown command
\* matches no branch.
\* Line 515: id >= 0 && id < 4.
ValidChannelNoLower(id) == id < NumSensors
ValidChannel(id) == id >= 0 /\ id < NumSensors

\* arr[i] = v: a store through an index outside the array lands outside it.
Store(arr, i, v) ==
    IF i \in DOMAIN arr THEN [arr EXCEPT ![i] = v] ELSE (i :> v) @@ arr

OnWriteParam(frame) ==
    LET data == frame.fields
        is(c) == frame.sep /\ frame.cmd = c
        id == Atoi(data[1])
        vals == ParseCsvInts(data, NumSensors)
    IN  /\ phase = "run" /\ cbPc = "idle"
        /\ systemOn' = IF is("POWER") THEN (Atoi(data[1]) = 1) ELSE systemOn
        /\ sensorMaxVol' =
              IF is("SENSOR_VOLUME") /\ Len(data) >= 2 /\ ValidChannel(id)
                THEN Store(sensorMaxVol, id, ClampPercent(Atoi(data[2])))
                ELSE sensorMaxVol
        /\ sensorBaselines' =
              IF is("CALIBRATE") /\ Len(vals) = NumSensors
                THEN [i \in Channels |-> vals[i + 1]]
                ELSE sensorBaselines
        /\ sensorThresholds' =
              IF is("SENSOR_THRESHOLD") /\ Len(vals) = NumSensors
                THEN [i \in Channels |-> vals[i + 1]]
                ELSE sensorThresholds
        /\ masterVol' = IF is("VOLUME_TOTAL") THEN ClampPercent(Atoi(data[1]))
                                               ELSE masterVol
        /\ frontExp' = IF is("SENSITIVITY")
                         THEN FrontExponent(ClampPercent(Atoi(data[1])))
                         ELSE frontExp
        /\ backExp' = IF is("SENSITIVITY")
                        THEN BackExponent(ClampPercent(Atoi(data[1])))
                        ELSE backExp
        /\ slider' = IF is("SENSITIVITY") THEN {Atoi(data[1])} ELSE slider
        /\ UNCHANGED <<cycleVars, streamVars, bleVars>>
        /\ offCycle' = (offCycle /\ ~systemOn')
        /\ UNCHANGED <<voices, bandVars, buffer, mixSum, loopLocals>>

\* The legacy frame if power-off also zeroed the master volume.
WriteLegacyByteMuting(val) ==
    /\ phase = "run" /\ cbPc = "idle"
    /\ systemOn' = (val = 1)
    /\ masterVol' = IF val = 1 THEN masterVol ELSE 0
    /\ UNCHANGED <<sensorMaxVol, sensorBaselines, sensorThresholds, frontExp,
                   backExp, slider, cycleVars, streamVars, bleVars>>
    /\ offCycle' = (offCycle /\ ~systemOn')
    /\ UNCHANGED <<voices, bandVars, buffer, mixSum, loopLocals>>

\* Lines 469-479: the legacy one-byte frame.
WriteLegacyByte(val) ==
    /\ phase = "run" /\ cbPc = "idle"
    /\ systemOn' = (val = 1)
    /\ UNCHANGED <<sensorMaxVol, sensorBaselines, sensorThresholds, masterVol,
                   frontExp, backExp, slider, cycleVars, streamVars, bleVars>>
    /\ offCycle' = (offCycle /\ ~systemOn')
    /\ UNCHANGED <<voices, bandVars, buffer, mixSum, loopLocals>>

\* ---- the frames the remote writes
Commands == {"POWER", "SENSOR_VOLUME", "CALIBRATE", "SENSOR_THRESHOLD",
             "VOLUME_TOTAL", "SENSITIVITY"}
ScalarFields == {Empty} \cup {<<n>> : n \in {-1, 0, 1, 50, 100, 150}}
VolumeFields == {<<n>> : n \in {-1, 3, 150}}
CsvFields == {<<n>> : n \in {-1, RawMax}}

SeqsUpTo(S, n) == UNION {[1..k -> S] : k \in 0..n}

\* The payloads of up to n fields that repeat one field of S.
RepeatsUpTo(S, n) == {[i \in 1..k |-> f] : k \in 0..n, f \in S}

\* One value, for POWER, VOLUME_TOTAL and SENSITIVITY.
ScalarFrames ==
    [cmd : {"POWER", "VOLUME_TOTAL", "SENSITIVITY"}, sep : {TRUE},
     fields : {<<f>> : f \in ScalarFields}]

\* One to MaxFields - 2 fields for SENSOR_VOLUME (it takes 2).
VolumeFrames ==
    [cmd : {"SENSOR_VOLUME"}, sep : {TRUE},
     fields : SeqsUpTo(VolumeFields, MaxFields - 2) \ {<< >>}]

\* Up to MaxFields times the same value, with or without a trailing comma,
\* for CALIBRATE and SENSOR_THRESHOLD (they take 4).
CsvFrames ==
    [cmd : {"CALIBRATE", "SENSOR_THRESHOLD"}, sep : {TRUE},
     fields : {p \o t : p \in RepeatsUpTo(CsvFields, MaxFields),
                        t \in {<< >>, <<Empty>>}} \ {<< >>}]

\* Text of two or more bytes without ':', and a command that does not exist.
OtherFrames ==
    [cmd : Commands, sep : {FALSE}, fields : {<<Empty>>}]
      \cup [cmd : {"NOSUCH"}, sep : {TRUE}, fields : {<<<<1>>>>}]

ParamFrames == ScalarFrames \cup VolumeFrames \cup CsvFrames \cup OtherFrames

ParamWrite == \E frame \in ParamFrames : OnWriteParam(frame)

LegacyWrite == \E val \in {0, 1, 2} : WriteLegacyByte(val)

\* setup() has run; only parameter frames are written.
ParamSpecInit == BleSpecInit

ParamNext == ParamWrite \/ LegacyWrite

ParamSpec == ParamSpecInit /\ [][ParamNext]_vars

\* ============================================== loop(): force per channel
IntMin == -IntMax - 1

\* What a build makes of a signed overflow (undefined in C++): the
\* two's-complement wrap of the subtract instruction, or the nearest int.
OverflowResults == {"wrap", "clamp"}

\* int a - b.
SubInt(a, b, onOverflow) ==
    LET d == a - b
    IN  IF d >= IntMin /\ d <= IntMax THEN d
        ELSE IF onOverflow = "wrap"
               THEN ((d - IntMin) % (2 * IntMax + 2)) + IntMin
               ELSE IF d > IntMax THEN IntMax ELSE IntMin

\* Lines 747-748 and 775-776: force = raw - baseline, floored at 0.
Force(raw, baseline, onOverflow) ==
    LET d == SubInt(raw, baseline, onOverflow)
    IN  IF d < 0 THEN 0 ELSE d

\* Lines 750-753 and 777-780: above the threshold, force / (4095 - baseline)
\* capped at 1; nothing (0) otherwise. In float, 0/0 is NaN, x/0 is +inf
\* (capped to 1), and a quotient with a negative maxRange is not capped from
\* below.
NormalizedForce(f, baseline, threshold) ==
    LET maxRange == RawMax - baseline
    IN  IF ~(f > threshold) THEN [num |-> 0, den |-> 1]
        ELSE IF maxRange = 0
               THEN IF f = 0 THEN [num |-> 0, den |-> 0]
                             ELSE [num |-> 1, den |-> 1]
        ELSE IF maxRange < 0 THEN [num |-> -f, den |-> -maxRange]
        ELSE IF f > maxRange THEN [num |-> 1, den |-> 1]
        ELSE [num |-> f, den |-> maxRange]

RawSamples == {0, 500, RawMax}

RECURSIVE Gcd(_, _)
Gcd(a, b) == IF b = 0 THEN a ELSE Gcd(b, a % b)

RECURSIVE IPow(_, _)
IPow(b, n) == IF n = 0 THEN 1 ELSE b * IPow(b, n - 1)

\* The largest y in lo..hi with y^q * VolUnit^p <= x^p * VolUnit^q, that is
\* y/VolUnit <= (x/VolUnit)^(p/q).
RECURSIVE RootBelow(_, _, _, _, _)
RootBelow(lo, hi, x, p, q) ==
    LET mid == (lo + hi + 1) \div 2
    IN  IF lo = hi THEN lo
        ELSE IF IPow(mid, q) * IPow(VolUnit, p) <= IPow(x, p) * IPow(VolUnit, q)
               THEN RootBelow(mid, hi, x, p, q)
               ELSE RootBelow(lo, mid - 1, x, p, q)

\* powf(nf, exp) of lines 757 and 781, for nf as NormalizedForce gives it and
\* exp in thousandths; the result in thousandths, rounded down. A NaN base
\* gives NaN, and so does a negative base unless exp is an even integer.
Powf(nf, exp) ==
    LET g == Gcd(exp, VolUnit)
        mag == IF nf.num < 0 THEN -nf.num ELSE nf.num
        x == (mag * VolUnit) \div nf.den
    IN  IF nf.den = 0 THEN NaN
        ELSE IF nf.num < 0 /\ exp % (2 * VolUnit) # 0 THEN NaN
        ELSE IF x = 0 \/ x = VolUnit THEN x
        ELSE RootBelow(0, VolUnit, x, exp \div g, VolUnit \div g)

\* Lines 759-761: baseVolume = 0.3 + curved * 0.7, scaled by the channel's
\* and the master volume (hundredths), capped at 1.0. NaN > 1.0f is false.
TargetVol(curved, maxVol, master) ==
    IF curved = NaN THEN NaN
    ELSE LET baseVolume == BaseVolumeMin + (curved * BaseVolumeSpan) \div VolUnit
             t == (baseVolume * maxVol * master) \div (PercentMax * PercentMax)
         IN  IF t > VolUnit THEN VolUnit ELSE t

\* Line 756: the front sensors (0, 1) use frontExp, the back ones backExp.
SensExp(i) == IF i < 2 THEN frontExp ELSE backExp

\* Lines 782-785 and 787-795: UPDATE_BAND once force, above (force over the
\* threshold) and the curved force nf of the channel are known. Gives the new
\* hold state and the band level. Every comparison with NaN is false.
UpdateBand(above, nf, baseVal, hold, now) ==
    IF above
      THEN LET level == IF nf = NaN THEN NaN
                        ELSE baseVal + (nf * (VolUnit - baseVal)) \div VolUnit
           IN  [hold |-> [peak |-> level, lastActive |-> now], out |-> level]
      ELSE IF ClockSub(now, hold.lastActive) * TickMs < HOLD_TIME_MS
             THEN [hold |-> hold, out |-> hold.peak]
             ELSE LET d == IF hold.peak = NaN THEN NaN
                           ELSE hold.peak - DECAY_PER_LOOP
                      decayed == IF d # NaN /\ d < baseVal THEN baseVal ELSE d
                  IN  [hold |-> [hold EXCEPT !.peak = decayed], out |-> decayed]

\* Lines 733-742: the channels are sampled, systemOn is tested and, when it
\* is set, audioMode is copied.
LoopSample(sv) ==
    /\ phase = "run"
    /\ loopStage = "sample"
    /\ sensorValues' = sv
    /\ loopOn' = systemOn
    /\ loopMode' = IF systemOn THEN audioMode ELSE loopMode
    /\ loopStage' = "logic"
    /\ UNCHANGED <<force, normalizedForce, runtimeParams, slider, streamVars,
                   bleVars, voices, bandVars, buffer, mixSum, offCycle>>

\* The raw samples of a step on the first sensor and of a foot at rest.
PressVectors ==
    {[i \in Channels |-> IF i = 0 THEN 500 ELSE DefaultBaseline],
     [i \in Channels |-> DefaultBaseline]}

\* Any samples in which the two sensors of a foot read the same, and the
\* press vectors.
RawVectors ==
    {sv \in [Channels -> RawSamples] : sv[2] = sv[0] /\ sv[3] = sv[1]}
        \cup PressVectors

LoopSampleAny == \E sv \in RawVectors : LoopSample(sv)

\* Lines 744-807: the audio logic of a control cycle that found the system on.
\* Force and normalized force are computed per channel, in the Accordion
\* branch (746-765) as in the Song branch (774-806); the first sets the voice
\* targets, the second the band levels and their hold state.
LoopForce ==
    /\ phase = "run"
    /\ loopStage = "logic" /\ loopOn
    /\ \E onOverflow \in OverflowResults :
          LET f == [i \in Channels |->
                      Force(sensorValues[i], sensorBaselines[i], onOverflow)]
              above == [i \in Channels |-> f[i] > sensorThresholds[i]]
              nf == [i \in Channels |->
                       NormalizedForce(f[i], sensorBaselines[i],
                                       sensorThresholds[i])]
              curved == [i \in Channels |-> Powf(nf[i], SensExp(i))]
              now == clock
              tR == UpdateBand(above[0], curved[0], TREBLE_BASE, holdTrebleR, now)
              tL == UpdateBand(above[1], curved[1], TREBLE_BASE, holdTrebleL, now)
              bR == UpdateBand(above[2], curved[2], BASS_BASE, holdBassR, now)
              bL == UpdateBand(above[3], curved[3], BASS_BASE, holdBassL, now)
          IN  /\ force' = f
              /\ normalizedForce' = nf
              /\ IF loopMode = 0
                   THEN /\ voices' = [i \in Channels |->
                              [voices[i] EXCEPT !.targetVol =
                                  IF above[i]
                                    THEN TargetVol(curved[i], sensorMaxVol[i],
                                                   masterVol)
                                    ELSE 0]]
                        /\ UNCHANGED bandVars
                   ELSE /\ holdTrebleR' = tR.hold /\ trebleLvlR' = tR.out
                        /\ holdTrebleL' = tL.hold /\ trebleLvlL' = tL.out
                        /\ holdBassR' = bR.hold /\ bassLvlR' = bR.out
                        /\ holdBassL' = bL.hold /\ bassLvlL' = bL.out
                        /\ lastPress' = [i \in Channels |->
                              IF above[i]
                                THEN {<<tR, tL, bR, bL>>[i + 1].out}
                                ELSE lastPress[i]]
                        /\ UNCHANGED voices
    /\ loopStage' = "sample"
    /\ offCycle' = FALSE
    /\ UNCHANGED <<sensorValues, loopOn, loopMode, buffer, mixSum,
                   runtimeParams, slider, streamVars, bleVars>>

\* Lines 808-814: the audio logic of a control cycle that found the system
\* off.
LoopOff ==
    /\ phase = "run"
    /\ loopStage = "logic" /\ ~loopOn
    /\ voices' = Silenced(voices)
    /\ trebleLvlR' = TREBLE_BASE
    /\ trebleLvlL' = TREBLE_BASE
    /\ bassLvlR' = BASS_BASE
    /\ bassLvlL' = BASS_BASE
    /\ loopStage' = "sample"
    /\ offCycle' = ~systemOn
    /\ UNCHANGED <<holdTrebleR, holdTrebleL, holdBassR, holdBassL, lastPress,
                   loopOn, loopMode, buffer, mixSum, paramVars, streamVars,
                   bleVars>>

\* CALIBRATE and SENSOR_THRESHOLD frames that give all four channels the same
\* value.
CalibrationFrames ==
    [cmd : {"CALIBRATE"}, sep : {TRUE},
     fields : {[i \in 1..NumSensors |-> <<b>>] : b \in {IntMin + 1, RawMax}}]
      \cup [cmd : {"SENSOR_THRESHOLD"}, sep : {TRUE},
            fields : {[i \in 1..NumSensors |-> <<-1>>]}]

CalibrationWrite == \E frame \in CalibrationFrames : OnWriteParam(frame)

\* setup() has run, in Accordion mode.
ForceSpecInit ==
    /\ phase = "run"
    /\ prefsMode = 0
    /\ audioMode = prefsMode
    /\ needOpenSong = FALSE
    /\ needCloseSong = FALSE
    /\ cbPc = "idle"
    /\ script = << >>
    /\ dataLen = 1
    /\ modeBeforeRestart = {}
    /\ modeAtWrite = {}
    /\ firstAfterOpen = FALSE
    /\ WebInit
    /\ AudioInit
    /\ BleInit
    /\ ParamInit
    /\ SynthAfterSetup

ForceNext == CalibrationWrite \/ LoopSampleAny \/ LoopForce

ForceSpec == ForceSpecInit /\ [][ForceNext]_vars

\* ============================================== power, loop() and audio
LoopSamplePress == \E sv \in PressVectors : LoopSample(sv)

PowerFrames ==
    [cmd : {"POWER"}, sep : {TRUE}, fields : {<< <<0>> >>, << <<1>> >>}]

PowerWrite == \E frame \in PowerFrames : OnWriteParam(frame)

\* setup() has run, in either mode; no MODE frame arrives.
PowerSpecInit ==
    /\ phase = "run"
    /\ prefsMode \in {0, 1}
    /\ audioMode = prefsMode
    /\ needOpenSong = (prefsMode = 1)
    /\ needCloseSong = FALSE
    /\ cbPc = "idle"
    /\ script = << >>
    /\ dataLen = MaxLen
    /\ modeBeforeRestart = {}
    /\ modeAtWrite = {}
    /\ firstAfterOpen = FALSE
    /\ WebInit
    /\ AudioInit
    /\ BleInit
    /\ ParamInit
    /\ SynthAfterSetup

PowerNext ==
    \/ PowerWrite
    \/ LoopSamplePress
    \/ LoopForce
    \/ LoopOff
    \/ AudioTop
    \/ AudioChkOpen
    \/ \E found \in BOOLEAN : AudioOpen(found)
    \/ AudioBody
    \/ AudioSong
    \/ AudioFilter
    \/ AudioPrefetch
    \/ AudioWrap
    \/ AudioReady
    \/ AudioWrite

PowerSpec == PowerSpecInit /\ [][PowerNext]_vars

\* ================================================ voices: loop() and audio
\* setup() has run, in Accordion mode with no stream request; the remote
\* calibrates to the top of the raw range, loop() samples insoles at rest, the
\* audio task synthesizes.
VoiceSpecInit == ForceSpecInit

\* CALIBRATE:4095,4095,4095,4095 and SENSOR_THRESHOLD:-1,-1,-1,-1.
DegenerateFrames ==
    {[cmd |-> "CALIBRATE", sep |-> TRUE,
      fields |-> [i \in 1..NumSensors |-> <<RawMax>>]],
     [cmd |-> "SENSOR_THRESHOLD", sep |-> TRUE,
      fields |-> [i \in 1..NumSensors |-> <<-1>>]]}

DegenerateWrite == \E frame \in DegenerateFrames : OnWriteParam(frame)

\* Every sensor reads its default baseline: nobody stands on the insoles.
LoopSampleRest == LoopSample([i \in Channels |-> DefaultBaseline])

VoiceNext ==
    \/ DegenerateWrite
    \/ LoopSampleRest
    \/ LoopForce
    \/ AudioTop
    \/ AudioChkOpen
    \/ AudioBody
    \/ AudioWrite

VoiceSpec == VoiceSpecInit /\ [][VoiceNext]_vars

\* Volumes a voice can rest at: silent, half and full.
RestVolumes == {0, VolUnit \div 2, VolUnit}

\* Accordion mode, every voice resting on a target in [0, 1].
MixSpecInit ==
    /\ phase = "run"
    /\ prefsMode = 0
    /\ audioMode = 0
    /\ needOpenSong = FALSE
    /\ needCloseSong = FALSE
    /\ cbPc = "idle"
    /\ script = << >>
    /\ dataLen = 1
    /\ modeBeforeRestart = {}
    /\ modeAtWrite = {}
    /\ firstAfterOpen = FALSE
    /\ WebInit
    /\ AudioInit
    /\ BleInit
    /\ ParamInit
    /\ SynthStart
    /\ \E vol \in [Channels -> RestVolumes] :
          voices = [i \in Channels |->
                      [VoicesAtSetup[i] EXCEPT !.targetVol = vol[i],
                                               !.currentVol = vol[i]]]

MixNext == AudioTop \/ AudioChkOpen \/ AudioBody \/ AudioWriteAny

MixSpec == MixSpecInit /\ [][MixNext]_vars

\* ================================================== bands: loop() in Song
\* setup() has run in Song mode; the remote toggles the power and calibrates
\* to the top of the raw range, loop() samples steps on the first sensor,
\* time passes.
BandSpecInit ==
    /\ phase = "run"
    /\ prefsMode = 1
    /\ audioMode = 1
    /\ needOpenSong = TRUE
    /\ needCloseSong = FALSE
    /\ cbPc = "idle"
    /\ script = << >>
    /\ dataLen = 1
    /\ modeBeforeRestart = {}
    /\ modeAtWrite = {}
    /\ firstAfterOpen = FALSE
    /\ WebInit
    /\ AudioInit
    /\ BleInit
    /\ ParamInit
    /\ SynthAfterSetup

\* The degenerate calibration, and SENSOR_THRESHOLD:150,150,150,150 that
\* puts the default thresholds back.
BandFrames ==
    DegenerateFrames \cup
        {[cmd |-> "SENSOR_THRESHOLD", sep |-> TRUE,
          fields |-> [i \in 1..NumSensors |-> <<DefaultThreshold>>]]}

BandWrite == \E frame \in BandFrames : OnWriteParam(frame)

BandNext ==
    \/ BandWrite
    \/ PowerWrite
    \/ LoopSamplePress
    \/ LoopForce
    \/ LoopOff
    \/ Tick

BandSpec == BandSpecInit /\ [][BandNext]_vars

\* The four bands: level, hold state, floor and driving channel.
Bands ==
    <<[lvl |-> trebleLvlR, hold |-> holdTrebleR, base |-> TREBLE_BASE, ch |-> 0],
      [lvl |-> trebleLvlL, hold |-> holdTrebleL, base |-> TREBLE_BASE, ch |-> 1],
      [lvl |-> bassLvlR, hold |-> holdBassR, base |-> BASS_BASE, ch |-> 2],
      [lvl |-> bassLvlL, hold |-> holdBassL, base |-> BASS_BASE, ch |-> 3]>>

\* The levels after a step.
LevelsAfter == <<trebleLvlR', trebleLvlL', bassLvlR', bassLvlL'>>

\* ============================================ MODE frames against loop()
\* setup() has run in Accordion mode; the remote writes MODE frames while
\* loop() samples steps on the first sensor.
ModeSpecInit == ForceSpecInit

ModeNext ==
    \/ RemoteWrite
    \/ OnWriteSteps
    \/ LoopSamplePress
    \/ LoopForce

ModeSpec == ModeSpecInit /\ [][ModeNext]_vars

\* The filter, band and hold state resetFilterState() leaves.
FilterStateReset ==
    /\ lpState' = 0
    /\ \A b \in 1..4 : LevelsAfter[b] = Bands[b].base
    /\ holdTrebleR' = HoldAt(TREBLE_BASE)
    /\ holdTrebleL' = HoldAt(TREBLE_BASE)
    /\ holdBassR' = HoldAt(BASS_BASE)
    /\ holdBassL' = HoldAt(BASS_BASE)

\* ================================================= well-formed frames
\* One frame or two of each command in the form the remote sends it:
\* POWER:0/1, SENSOR_VOLUME:id,50, CALIBRATE:0,0,0,0,
\* SENSOR_THRESHOLD:0,0,0,0, VOLUME_TOTAL:50, SENSITIVITY:0/100.
WellFormedFrames ==
    [cmd : {"POWER"}, sep : {TRUE}, fields : {<< <<0>> >>, << <<1>> >>}]
      \cup [cmd : {"SENSOR_VOLUME"}, sep : {TRUE},
            fields : {<< <<id>>, <<50>> >> : id \in Channels}]
      \cup [cmd : {"CALIBRATE", "SENSOR_THRESHOLD"}, sep : {TRUE},
            fields : {[i \in 1..NumSensors |-> <<0>>]}]
      \cup [cmd : {"VOLUME_TOTAL"}, sep : {TRUE}, fields : {<< <<50>> >>}]
      \cup [cmd : {"SENSITIVITY"}, sep : {TRUE},
            fields : {<< <<0>> >>, << <<100>> >>}]

WellFormedWrite == \E frame \in WellFormedFrames : OnWriteParam(frame)

FrameSpecInit == ParamSpecInit

FrameNext == WellFormedWrite \/ LegacyWrite

FrameSpec == FrameSpecInit /\ [][FrameNext]_vars

\* ================================================== channel indices
\* SENSOR_VOLUME:id,0 and SENSOR_VOLUME:id,50 for the ids around the ends of
\* the channel range, written while loop() runs its Accordion cycle.
IndexFrames ==
    [cmd : {"SENSOR_VOLUME"}, sep : {TRUE},
     fields : {<< <<id>>, <<vol>> >> :
                  id \in {-1, 0, NumSensors - 1, NumSensors}, vol \in {0, 50}}]

IndexWrite == \E frame \in IndexFrames : OnWriteParam(frame)

IndexSpecInit == ForceSpecInit

IndexNext == IndexWrite \/ LoopSampleAny \/ LoopForce

IndexSpec == IndexSpecInit /\ [][IndexNext]_vars

\* ================================================================ claims
\* No request is pending or being processed: the callback has returned and
\* both flags are false (the audio task clears a flag in the step that
\* executes the request).
Quiescent ==
    /\ cbPc = "idle"
    /\ ~needOpenSong /\ ~needCloseSong
    /\ aPc \notin {"close", "open"}

\* C1: every step that changes the stream handle (open, close, read, seek:
\* songFile, songFileOpen, the block contents) is a step of the audio task;
\* setup and the command callback never change it, and never clear a request
\* flag: they only set one. (A restart is no step of the firmware.)
C1_OnlyProducerTouchesStream ==
    [][ ~Restart =>
        /\ (streamHandle' # streamHandle => AudioTask)
        /\ (~AudioTask => /\ (needOpenSong => needOpenSong')
                          /\ (needCloseSong => needCloseSong')) ]_vars

\* C1 witness: the stream was opened, read and, after a MODE:0 frame, closed.
C1_Witness ==
    /\ played # << >> /\ ~songFile.open /\ audioMode = 0 /\ prefsMode = 0

\* C2: in the scenario (Song mode, stream open, MODE:1 then MODE:0), once both
\* frames are processed and the audio task has executed every request, no
\* stream is open, and no close was executed on a closed handle and no open
\* handle was dropped.
C2_ClosedOnceNoLeak ==
    (script = << >> /\ Quiescent) =>
        /\ ~songFile.open /\ ~songFileOpen
        /\ ~badClose /\ ~leaked

\* C3: whenever the mode is Accordion and no request is pending, the stream
\* is closed.
C3_ClosedInAccordion ==
    (phase = "run" /\ audioMode = 0 /\ Quiescent) => ~songFile.open

IsData(x) == x >= WAV_HEADER_SIZE /\ x < FileEnd

\* C4: a block marked ready is not one whose read is still in progress and
\* holds no unwritten item; the block being played was completely filled.
C4_ReadyBlockFilled ==
    /\ songReady # "NULL" =>
          /\ filling # songReady
          /\ songReadyBytes = BlockSize
          /\ \A i \in 1..BlockSize : blk[songReady][i] # Uninit
    /\ aPc = "filter" =>
          /\ filling # songBuf
          /\ \A i \in 1..bytesRead : blk[songBuf][i] # Uninit

\* C4 witness: a prefetched block whose fill wrapped around is being played.
C4_Witness ==
    /\ aPc = "filter" /\ playedFrom = "prefetch"
    /\ \E i \in 2..BlockSize : blk[songBuf][i] = WAV_HEADER_SIZE

\* C5: no block prefetched before the last processed open or close request is
\* marked ready, and none has been played.
C5_NoStaleBlock == ~staleReady /\ ~playedStale

\* C5 witness: a request was processed while a block was marked ready, and
\* playback went on afterwards from a synchronous read.
C5_Witness ==
    /\ droppedReady /\ aPc = "filter" /\ playedFrom = "sync"

\* A block of BlockSize stream bytes that follow each other in the looped
\* stream: after the last byte of the file comes the first data byte.
IsLoopedRun(b) ==
    /\ Len(b) = BlockSize
    /\ \A i \in 1..BlockSize : IsData(b[i])
    /\ \A i \in 1..(BlockSize - 1) :
          b[i + 1] = IF b[i] = FileEnd - 1 THEN WAV_HEADER_SIZE ELSE b[i] + 1

\* C6 as stated: for every stream length, every block handed to playback is
\* BlockSize valid bytes, tail followed by head, with no padding.
C6_EveryBlockExact == played # << >> => IsLoopedRun(played)

\* C6 amended: the same for every stream whose data is at least one block long.
C6_ExactWhenStreamHoldsABlock ==
    (played # << >> /\ dataLen >= BlockSize) => IsLoopedRun(played)

\* C6 witness: a played block made of the stream's tail and its head.
C6_Witness ==
    /\ played # << >> /\ dataLen >= BlockSize /\ playedFrom = "prefetch"
    /\ \E i \in 1..(BlockSize - 1) :
          played[i] = FileEnd - 1 /\ played[i + 1] = WAV_HEADER_SIZE

HeartbeatPcs == {"hbchk", "hbsend", "hbreset"}

\* C7 as stated: while the link stays up and no frame is marked pending, at
\* most one heartbeat is sent (exactly one before the next data frame),
\* however long the stall lasts.
C7_ExactlyOneHeartbeat == hbSinceMark <= 1

\* C7 amended: two heartbeats with no timer write of the loop in between have
\* timestamps more than a stall window apart (one heartbeat per window).
C7_HeartbeatsAWindowApart == ~hbTooSoon

\* C7 witness: one uninterrupted connection, no frame marked, two heartbeats.
C7_Witness ==
    /\ deviceConnected /\ ~linkLost
    /\ hbSinceMark = 2 /\ prevHbStamp # -1

\* C8: a poll that finds the link up, nothing pending and the stall window
\* exceeded sends a heartbeat.
C8_HeartbeatWhenDue == ~missedHb

\* C9: the steps of the heartbeat path change neither the pending flag nor
\* the pending frame; the flag is cleared only after a data send or by the
\* link-loss branch of the loop; a poll that finds the flag set sends data.
C9_HeartbeatLeavesPendingData ==
    [][ /\ (nPc \in HeartbeatPcs /\ nPc' # nPc) =>
              /\ bleNeedsSend' = bleNeedsSend
              /\ blePayload' = blePayload
              /\ frameState' = frameState
        /\ (bleNeedsSend /\ ~bleNeedsSend') =>
              (nPc = "clear" /\ nPc' = "poll") \/ lPc = "lost_flag"
        /\ (nPc = "poll" /\ nPc' # nPc /\ bleNeedsSend) => nPc' = "send" ]_vars

\* C9 witness: a frame was marked pending while a heartbeat was being sent.
C9_Witness ==
    /\ nPc = "hbreset" /\ bleNeedsSend /\ frameState = "marked"
    /\ deviceConnected

C11_LossEventuallyHandled ==
    lossUnhandled ~> (~lossUnhandled \/ deviceConnected)

\* C12: no shared field is written by more than one context; what the audio
\* task writes (the low-pass filter state among it) the control side never
\* writes, and the other way round.
C12_SingleWriterPerField ==
    \A f \in SharedFields : Cardinality(writers[f]) <= 1

\* C13: once setup() has run, and so right after a restart that restored the
\* persisted mode, the active mode is Accordion (0) or Song (1).
C13_ModeIsAccordionOrSong ==
    phase = "run" => audioMode \in {0, 1}

\* C14: the mode setup() restores after a restart is the mode that was active
\* just before the restart, and a restored Song mode comes with the
\* stream-open request pending.
C14_RestoredModeIsLastActive ==
    [][ Setup => /\ \A m \in modeBeforeRestart : audioMode' = m
                 /\ (audioMode' = 1 => needOpenSong') ]_vars

\* Frames that C15 says are dropped: no ':' at all, or a payload of values
\* (no empty field) whose count is not what the command takes.
IsMalformed(frame) ==
    \/ ~frame.sep
    \/ /\ \A k \in 1..Len(frame.fields) : frame.fields[k] # Empty
       /\ \/ frame.cmd = "SENSOR_VOLUME" /\ Len(frame.fields) # 2
          \/ /\ frame.cmd \in {"CALIBRATE", "SENSOR_THRESHOLD"}
             /\ Len(frame.fields) # NumSensors

\* C15: a frame without separator, and a SENSOR_VOLUME, CALIBRATE or
\* SENSOR_THRESHOLD frame with the wrong number of values, changes no runtime
\* parameter.
C15_MalformedFrameDropped ==
    [][ \A frame \in ParamFrames :
          (IsMalformed(frame) /\ OnWriteParam(frame))
              => UNCHANGED runtimeParams ]_vars

C17_CalibrationInRawRange ==
    \A i \in Channels :
        /\ sensorBaselines[i] \in 0..RawMax
        /\ sensorThresholds[i] \in 0..RawMax

\* C18: the normalized force of every channel is a defined value in [0, 1]
\* (no 0/0), and among channels with one baseline and threshold it does not
\* decrease as force grows.
C18_NormalizedForceInUnitRange ==
    /\ \A i \in Channels :
          /\ normalizedForce[i].den > 0
          /\ normalizedForce[i].num >= 0
          /\ normalizedForce[i].num <= normalizedForce[i].den
    /\ \A i, j \in Channels :
          force[i] <= force[j] =>
              normalizedForce[i].num * normalizedForce[j].den
                  <= normalizedForce[j].num * normalizedForce[i].den

\* C19: force is never negative and, for one baseline, does not decrease as
\* the raw sample grows.
C19_ForceMonotonicInRaw ==
    /\ \A i \in Channels : force[i] >= 0
    /\ \A i, j \in Channels :
          sensorValues[i] <= sensorValues[j] => force[i] <= force[j]

\* C20: after a SENSITIVITY frame with payload s, clamped to 0..100, the front
\* exponent is 2.0 - 1.7 s/100 and the back exponent 0.3 + 1.7 s/100.
C20_ExponentsLinearInSlider ==
    \A s \in slider :
        LET c == IF s < 0 THEN 0 ELSE IF s > 100 THEN 100 ELSE s
        IN  /\ 100 * frontExp = 100 * 2000 - 1700 * c
            /\ 100 * backExp = 100 * 300 + 1700 * c
            /\ (c = 0 => frontExp = 2000 /\ backExp = 300)
            /\ (c = 100 => frontExp = 300 /\ backExp = 2000)

\* C20 witness: a slider value strictly between the end points was written.
C20_Witness ==
    slider = {50} /\ frontExp = 1150 /\ backExp = 1150


\* C21: once a control cycle has run with the power flag off, and while the
\* flag stays off, every voice target is 0 and a block the Producer mixes
\* from the Song stream is silent.
C21_PowerOffGatesSynthesis ==
    [][ (offCycle /\ ~systemOn) =>
          /\ \A v \in Channels : voices[v].targetVol = 0
          /\ (AudioFilter => buffer' = ZeroBlock) ]_vars


\* C22: a control cycle in Accordion mode with the power on leaves the target
\* of voice i at 0 when force_i <= threshold_i and otherwise at a volume
\* between 0.3 * scale_i * master and 1.0, so always in [0,1]; with baselines
\* 300, thresholds 150 and raw samples [500,300,300,300] only voice 0 gets a
\* non-zero target.
C22_AccordionTargets ==
    [][ (loopStage = "logic" /\ loopStage' = "sample" /\ loopOn /\ loopMode = 0) =>
          /\ \A i \in Channels :
                LET t == voices'[i].targetVol
                    floor == (BaseVolumeMin * sensorMaxVol[i] * masterVol)
                                \div (PercentMax * PercentMax)
                IN  IF force'[i] <= sensorThresholds[i]
                      THEN t = 0
                      ELSE t # NaN /\ t >= Min(floor, VolUnit) /\ t <= VolUnit
          /\ ( /\ sensorValues = [i \in Channels |-> IF i = 0 THEN 500 ELSE 300]
               /\ sensorBaselines = [i \in Channels |-> 300]
               /\ sensorThresholds = [i \in Channels |-> 150]
               => \A i \in Channels : (voices'[i].targetVol # 0) <=> (i = 0) )
      ]_vars


\* C23: at every sample step of a synthesized block each voice's current
\* volume is a number that moves toward the target without passing it: the
\* distance to the target never grows, and it shrinks while the volume is
\* not at the target.
C23_VolumeApproachesTarget ==
    [][ (aPc = "write" /\ aPc' = "top" /\ currentMode = 0) =>
          \A v \in Channels : \A k \in 0..(BlockSize - 1) :
              LET target == voices[v].targetVol
                  before == SmoothN(target, voices[v].currentVol, k)
                  after == Smooth(target, before)
                  Dist(c) == IF target > c THEN target - c ELSE c - target
              IN  /\ target # NaN /\ before # NaN /\ after # NaN
                  /\ target >= before => (before <= after /\ after <= target)
                  /\ target <= before => (target <= after /\ after <= before)
                  /\ Dist(after) <= Dist(before)
                  /\ before # target => Dist(after) < Dist(before)
                  /\ k = BlockSize - 1 => voices'[v].currentVol = after
      ]_vars

\* C24: with every voice volume in [0, 1], whatever the oscillators and the
\* tremolo read, the sums the voices add to the left and to the right channel
\* of a frame are 16-bit values, so the block holds the exact sums.
C24_VoiceSumFits16Bits ==
    \A f \in 1..BlockSize :
        /\ mixSum[f].L \in Int16Min..Int16Max
        /\ mixSum[f].R \in Int16Min..Int16Max
        /\ buffer[f] = mixSum[f]

\* Two voices at full volume read the table's peak at the tremolo's maximum.
C24_Witness ==
    \E f \in 1..BlockSize :
        mixSum[f].L = 2 * ((WavePeak * (VolUnit + TREMOLO_DEPTH)) \div VolUnit)


\* ------------------------------------------------ web app: BleService.write
\* The firmware's state, untouched by the web app's steps.
deviceVars == <<deviceStreamVars, bleVars, paramVars, synthVars>>

notesVars == <<blobs, nextUrl, notesPc, blobUrl, notes, csv, meta, stored>>

\* Payloads handed to write().
Payloads == {"POWER:1", "MODE:1"}

\* A link of the chain: "queued" (doWrite not yet called), "writing"
\* (writeValueWithoutResponse called, the race undecided), "written",
\* "failed" (the GATT promise rejected first), "timedout" (the timer
\* rejected first: the GATT operation has not settled), "late" (it settled
\* after the timer), "skipped" (doWrite returned at line 88).
Settled(link) == link.st \in {"written", "failed", "timedout", "late", "skipped"}
InProgress(link) == link.st \in {"writing", "timedout"}

\* write(data), lines 81-101: returns at line 84 without a link when not
\* connected; otherwise chains doWrite behind the current tail.
Write(d) ==
    /\ gattConnected
    /\ Len(writeQueue) < MaxWrites
    /\ writeQueue' = Append(writeQueue, [data |-> d, st |-> "queued"])
    /\ UNCHANGED <<gattConnected, notesVars, deviceVars>>

\* doWrite, lines 87-96, run by then() once the previous link has settled.
DoWrite ==
    /\ \E i \in DOMAIN writeQueue :
          /\ writeQueue[i].st = "queued"
          /\ IF i = 1 THEN TRUE ELSE Settled(writeQueue[i - 1])
          /\ writeQueue' = [writeQueue EXCEPT
                 ![i].st = IF gattConnected THEN "writing" ELSE "skipped"]
    /\ UNCHANGED <<gattConnected, notesVars, deviceVars>>

\* One link's race decided (lines 93-96), or the operation's late end.
LinkStep(from, to) ==
    /\ \E i \in DOMAIN writeQueue :
          /\ writeQueue[i].st = from
          /\ writeQueue' = [writeQueue EXCEPT ![i].st = to]
    /\ UNCHANGED <<gattConnected, notesVars, deviceVars>>

\* writeValueWithoutResponse resolves, or rejects, before the timer.
GattResolve == LinkStep("writing", "written")
GattReject == LinkStep("writing", "failed")
\* The timer of lines 90-92 rejects first; catch (line 98) resolves the link.
WriteTimeout == LinkStep("writing", "timedout")
\* The operation the timer gave up on ends.
GattSettle == LinkStep("timedout", "late")

\* connect() succeeded (lines 36-64), or the link dropped.
GattConnect ==
    /\ ~gattConnected
    /\ gattConnected' = TRUE
    /\ UNCHANGED <<writeQueue, notesVars, deviceVars>>

GattDisconnect ==
    /\ gattConnected
    /\ gattConnected' = FALSE
    /\ UNCHANGED <<writeQueue, notesVars, deviceVars>>

WriteSpecInit == Init
WriteNext ==
    \/ \E d \in Payloads : Write(d)
    \/ DoWrite
    \/ GattResolve
    \/ GattReject
    \/ WriteTimeout
    \/ GattSettle
    \/ GattConnect
    \/ GattDisconnect
WriteSpec == WriteSpecInit /\ [][WriteNext]_vars

\* --------------------------------------- web app: updateRecordingNotes
\* Recording dates and durations, as saveRecording names them.
Dates == {"2025-01-01T10:00:00.000Z"}
Durations == {5}
NoteTexts == {"", "gait"}

\* buildFilename / parseFilename (lines 32-62) on the dates of Dates, whose
\* punctuation parseFilename restores: the parts of the pathname.
BuildFilename(date, duration, n) == [date |-> date, dur |-> duration, note |-> n]
ParseFilename(pathname) ==
    [date |-> pathname.date, duration |-> pathname.dur, notes |-> pathname.note]

BlobAt(u) == {b \in blobs : b.url = u}

\* POST /api/blob/upload answered ok: a new blob under a fresh url.
Uploaded(pathname, d) ==
    blobs \cup {[url |-> nextUrl, pathname |-> pathname, data |-> d]}

\* saveRecording (lines 69-83), its upload answered ok; every recording
\* has its own CSV content.
SaveRecording ==
    /\ notesPc = "idle"
    /\ nextUrl <= MaxBlobs
    /\ \E date \in Dates, duration \in Durations, n \in NoteTexts :
          blobs' = Uploaded(BuildFilename(date, duration, n), nextUrl)
    /\ nextUrl' = nextUrl + 1
    /\ UNCHANGED <<notesPc, blobUrl, notes, csv, meta, stored>>
    /\ UNCHANGED <<gattConnected, writeQueue, deviceVars>>

\* View.tsx:76 calls updateRecordingNotes(blobUrl, editNote) on a listed blob.
UpdateBegin ==
    /\ notesPc = "idle"
    /\ nextUrl <= MaxBlobs
    /\ \E b \in blobs, n \in NoteTexts :
          /\ blobUrl' = b.url
          /\ notes' = n
          /\ stored' = b.data
    /\ notesPc' = "download"
    /\ UNCHANGED <<blobs, nextUrl, csv, meta>>
    /\ UNCHANGED <<gattConnected, writeQueue, deviceVars>>

\* Lines 144-146.
Download ==
    /\ notesPc = "download"
    /\ \E ok \in BOOLEAN :
          IF ok /\ BlobAt(blobUrl) # {}
          THEN /\ csv' = (CHOOSE b \in BlobAt(blobUrl) : TRUE).data
               /\ notesPc' = "list"
          ELSE /\ csv' = csv
               /\ notesPc' = "thrown"
    /\ UNCHANGED <<blobs, nextUrl, blobUrl, notes, meta, stored>>
    /\ UNCHANGED <<gattConnected, writeQueue, deviceVars>>

\* Lines 150-156.
List ==
    /\ notesPc = "list"
    /\ \E ok \in BOOLEAN :
          IF ok /\ BlobAt(blobUrl) # {}
          THEN /\ meta' = ParseFilename((CHOOSE b \in BlobAt(blobUrl) : TRUE).pathname)
               /\ notesPc' = "delete"
          ELSE /\ meta' = meta
               /\ notesPc' = "thrown"
    /\ UNCHANGED <<blobs, nextUrl, blobUrl, notes, csv, stored>>
    /\ UNCHANGED <<gattConnected, writeQueue, deviceVars>>

\* Line 159, deleteRecording (lines 124-135).
Delete ==
    /\ notesPc = "delete"
    /\ \E ok \in BOOLEAN :
          IF ok
          THEN /\ blobs' = blobs \ BlobAt(blobUrl)
               /\ notesPc' = "upload"
          ELSE /\ blobs' = blobs
               /\ notesPc' = "thrown"
    /\ UNCHANGED <<nextUrl, blobUrl, notes, csv, meta, stored>>
    /\ UNCHANGED <<gattConnected, writeQueue, deviceVars>>

\* Lines 162-171.
Upload ==
    /\ notesPc = "upload"
    /\ \E ok \in BOOLEAN :
          IF ok
          THEN /\ blobs' = Uploaded(BuildFilename(meta.date, meta.duration, notes), csv)
               /\ nextUrl' = nextUrl + 1
               /\ notesPc' = "returned"
          ELSE /\ blobs' = blobs
               /\ nextUrl' = nextUrl
               /\ notesPc' = "thrown"
    /\ UNCHANGED <<blobUrl, notes, csv, meta, stored>>
    /\ UNCHANGED <<gattConnected, writeQueue, deviceVars>>

\* The caller goes on (View.tsx:76-80).
UpdateEnd ==
    /\ notesPc \in {"returned", "thrown"}
    /\ notesPc' = "idle"
    /\ blobUrl' = 0
    /\ notes' = ""
    /\ csv' = "none"
    /\ meta' = "none"
    /\ stored' = "none"
    /\ UNCHANGED <<blobs, nextUrl>>
    /\ UNCHANGED <<gattConnected, writeQueue, deviceVars>>

NotesSpecInit == Init
NotesNext ==
    \/ SaveRecording
    \/ UpdateBegin
    \/ Download
    \/ List
    \/ Delete
    \/ Upload
    \/ UpdateEnd
NotesSpec == NotesSpecInit /\ [][NotesNext]_vars


\* C25: each band gain is a number between its floor (0.05 treble, 0.15 bass)
\* and 1.0.
C25_BandGainsInRange ==
    \A b \in 1..4 :
        /\ Bands[b].lvl # NaN
        /\ Bands[b].lvl >= Bands[b].base
        /\ Bands[b].lvl <= VolUnit

\* C26: in a Song cycle with the power on, a band whose force is at or below
\* the threshold keeps the level of its last active cycle while the cycle is
\* within HOLD_TIME_MS of that one; in a later cycle its level is a number,
\* one decay step below the held level, or the floor when that would go
\* below it.
C26_HoldThenDecay ==
    [][ (loopStage = "logic" /\ loopStage' = "sample" /\ loopOn /\ loopMode # 0) =>
          \A b \in 1..4 :
              LET band == Bands[b]
                  after == LevelsAfter[b]
              IN  force'[band.ch] <= sensorThresholds[band.ch] =>
                    IF ClockSub(clock, band.hold.lastActive) * TickMs < HOLD_TIME_MS
                      THEN \A p \in lastPress[band.ch] : after = p
                      ELSE /\ after # NaN
                           /\ after >= band.base
                           /\ after = IF band.hold.peak - DECAY_PER_LOOP < band.base
                                        THEN band.base
                                        ELSE band.hold.peak - DECAY_PER_LOOP
      ]_vars


\* C27: whenever the mode is Song after a MODE:1 frame, every voice target
\* is 0, whatever the interleaving of the handler with loop(); and when the
\* MODE:1 handler returns, the low-pass state, the band levels and the hold
\* state are at the values resetFilterState() assigns.
C27_ModeOneSilencesVoices ==
    [][ /\ audioMode' = 1 => \A v \in Channels : voices'[v].targetVol = 0
        /\ (cbPc = "m1_mode" /\ cbPc' = "idle") => FilterStateReset
      ]_vars

\* C28: when the handler of a MODE:0 frame that arrived in Song mode returns,
\* the four band levels and hold peaks are at their floors, needCloseSong is
\* set, every voice target is 0 and the phase increments are those of setup().
C28_ModeZeroRestoresAccordion ==
    [][ (cbPc = "m0_close" /\ cbPc' = "idle" /\ modeAtWrite = {1}) =>
          /\ \A b \in 1..4 : LevelsAfter[b] = Bands[b].base
          /\ holdTrebleR'.peak = TREBLE_BASE
          /\ holdTrebleL'.peak = TREBLE_BASE
          /\ holdBassR'.peak = BASS_BASE
          /\ holdBassL'.peak = BASS_BASE
          /\ needCloseSong'
          /\ \A v \in Channels :
                /\ voices'[v].targetVol = 0
                /\ voices'[v].phaseIncrement = VoicesAtSetup[v].phaseIncrement
                /\ voices'[v].phaseInc2 = VoicesAtSetup[v].phaseInc2
      ]_vars


C30_AllocationFailureHalts ==
    [][ aPc = "deleted" =>
          \/ phase' = "boot"
          \/ (cbPc' = cbPc /\ prefsMode' = prefsMode /\ audioMode' = audioMode)
      ]_vars


\* The byte that follows byte x in the looped stream data.
LoopedSucc(x) == IF x = FileEnd - 1 THEN WAV_HEADER_SIZE ELSE x + 1

\* The prefetch is marked ready in the block other than the one consumed, and
\* a block consumed from the prefetch continues the looped stream where the
\* block played before it ended.
PlaybackContinues ==
    /\ (aPc = "ready" /\ aPc' = "write") =>
          (songReady' \in Bufs /\ songReady' # songBuf)
    /\ (aPc = "filter" /\ aPc' = "prefetch" /\ playedFrom = "prefetch") =>
          /\ Len(played) = BlockSize
          /\ IsLoopedRun(played')
          /\ played'[1] = LoopedSucc(played[BlockSize])

\* C31 as stated: for every stream length, each prefetch goes into the other
\* block and successive played blocks are consecutive segments of the looped
\* stream data.
C31_ConsecutiveSegments == [][PlaybackContinues]_vars

\* C31 amended: the same for every stream whose data is at least one block
\* long.
C31_ConsecutiveWhenStreamHoldsABlock ==
    [][dataLen >= BlockSize => PlaybackContinues]_vars

\* C31 witness: a block taken from the prefetch that continues the stream
\* past its first block has just been filtered.
C31_Witness ==
    /\ aPc = "prefetch" /\ playedFrom = "prefetch"
    /\ dataLen >= BlockSize
    /\ IsLoopedRun(played)
    /\ played[1] # WAV_HEADER_SIZE


\* C32: the first block taken after an open that succeeded is read
\* synchronously, not taken from a block marked ready, and the read starts at
\* offset WAV_HEADER_SIZE, so the block begins with the first data byte.
C32_FirstBlockSynchronous ==
    [][ (aPc = "song" /\ aPc' = "filter" /\ firstAfterOpen) =>
          /\ songReady = "NULL"
          /\ playedFrom' = "sync"
          /\ songFile.pos = WAV_HEADER_SIZE
          /\ blk'[songBuf'][1] = WAV_HEADER_SIZE
      ]_vars

\* C32 witness: the stream was re-opened while a block was marked ready, and
\* the block now in the filter was read synchronously from the first data
\* byte on.
C32_Witness ==
    /\ aPc = "filter" /\ playedFrom = "sync" /\ droppedReady
    /\ songBuf = "A" /\ blk["A"][1] = WAV_HEADER_SIZE
    /\ ~firstAfterOpen


\* What a step changed is within the parameters of command c; for
\* SENSOR_VOLUME, within the volume scale of channel id.
ChangesOnly(c, id) ==
    /\ systemOn' # systemOn => c = "POWER"
    /\ \A i \in Channels :
          sensorMaxVol'[i] # sensorMaxVol[i] => (c = "SENSOR_VOLUME" /\ i = id)
    /\ sensorBaselines' # sensorBaselines => c = "CALIBRATE"
    /\ sensorThresholds' # sensorThresholds => c = "SENSOR_THRESHOLD"
    /\ masterVol' # masterVol => c = "VOLUME_TOTAL"
    /\ (frontExp' # frontExp \/ backExp' # backExp) => c = "SENSITIVITY"
    /\ UNCHANGED <<audioMode, prefsMode, needOpenSong, needCloseSong>>

\* C33: a well-formed command frame changes nothing outside its own parameters (POWER and
\* the one-byte frame the power flag, SENSOR_VOLUME id,vol the volume scale
\* of channel id, CALIBRATE the baselines, SENSOR_THRESHOLD the thresholds,
\* VOLUME_TOTAL the master volume, SENSITIVITY the two exponents); the mode
\* and the stream request flags stay as they are.
C33_CommandChangesOwnParameters ==
    [][ /\ \A frame \in WellFormedFrames :
              OnWriteParam(frame) => ChangesOnly(frame.cmd, Atoi(frame.fields[1]))
        /\ \A val \in {0, 1, 2} : WriteLegacyByte(val) => ChangesOnly("POWER", 0)
      ]_vars

\* C33 witness: the baselines and one channel's volume scale have been set,
\* the power switched off by the one-byte frame or POWER, and the thresholds,
\* the master volume and the exponents are as initialised.
C33_Witness ==
    /\ sensorBaselines = [i \in Channels |-> 0]
    /\ sensorMaxVol = [i \in Channels |-> IF i = 3 THEN 50 ELSE PercentMax]
    /\ ~systemOn
    /\ sensorThresholds = [i \in Channels |-> DefaultThreshold]
    /\ masterVol = PercentMax
    /\ frontExp = DefaultFrontExp /\ backExp = ExpHigh


\* C34: a SENSOR_VOLUME frame whose id is not a channel changes nothing, and
\* after every step of the handler or of loop() each channel array still has
\* exactly the four elements 0..3: no store went through another index.
C34_ChannelIndexInRange ==
    [][ /\ \A frame \in IndexFrames :
              (Atoi(frame.fields[1]) \notin Channels /\ OnWriteParam(frame))
                  => UNCHANGED vars
        /\ DOMAIN sensorMaxVol' = Channels
        /\ DOMAIN sensorBaselines' = Channels
        /\ DOMAIN sensorThresholds' = Channels
        /\ DOMAIN sensorValues' = Channels
        /\ DOMAIN force' = Channels
        /\ DOMAIN normalizedForce' = Channels
        /\ DOMAIN voices' = Channels
      ]_vars

\* C34 witness: the first and the last channel have been scaled by
\* SENSOR_VOLUME and a control cycle has set the first voice's target from
\* the scaled volume.
C34_Witness ==
    /\ sensorMaxVol[0] = 50 /\ sensorMaxVol[NumSensors - 1] = 50
    /\ voices[0].targetVol > 0
    /\ voices[0].targetVol <= VolUnit \div 2


\* C35: when the notify task decides to send a heartbeat (line 603 true), the
\* link is up, no frame is pending, and the time it sampled is really more
\* than the stall window past the last timestamp of a marked frame or a
\* heartbeat: the timestamp is not later than the sampled time.
C35_HeartbeatOnlyAfterRealStall ==
    [][ (nPc = "hbchk" /\ nPc' = "hbsend") =>
          /\ deviceConnected
          /\ ~bleNeedsSend
          /\ nowLocal >= lastBleUpdateMs
          /\ nowLocal - lastBleUpdateMs > HeartbeatTimeout
      ]_vars


\* C36: loop() is never at its write of blePayload (snprintf, line 820)
\* while the notify task is at its read of it for a data frame (setValue,
\* line 597): the two accesses never overlap, so a frame sent is the frame
\* of one control cycle.
C36_NoWriteDuringSend == ~(lPc = "ser" /\ nPc = "send")


\* C37: no open handle is ever overwritten by an open (at most one handle is
\* open), no close is executed on a handle that is not open, and songFileOpen
\* is true exactly when the handle is open.
C37_OneHandleFlagExact ==
    /\ ~leaked
    /\ ~badClose
    /\ songFileOpen = songFile.open

\* C37 witness: an open request was processed while the stream was open and
\* being played, and the stream is open again.
C37_Witness ==
    /\ droppedReady /\ songFileOpen /\ songFile.open
    /\ aPc = "body" /\ ~needOpenSong /\ ~needCloseSong


\* C38: over a control cycle a band level rises only if the cycle ran the
\* Song branch with the power on and the band's force above its threshold.
C38_GainRisesOnlyOnPress ==
    [][ (loopStage = "logic" /\ loopStage' = "sample") =>
          \A b \in 1..4 :
              LevelsAfter[b] > Bands[b].lvl =>
                  /\ loopOn /\ loopMode # 0
                  /\ force'[Bands[b].ch] > sensorThresholds[Bands[b].ch]
      ]_vars


\* C39: at most one write to the command characteristic is in progress.
C39_OneWriteAtATime ==
    Cardinality({i \in DOMAIN writeQueue : InProgress(writeQueue[i])}) <= 1

\* C40: when updateRecordingNotes has returned or thrown, some blob of
\* the store holds the data the recording had when the call began.
C40_RecordingNeverLost ==
    notesPc \in {"returned", "thrown"} => \E b \in blobs : b.data = stored

=============================================================================
